---- MODULE Spec2Model ----
(***************************************************************************)
(* A model of roid's interaction routing and managed state.                *)
(*                                                                         *)
(* Python values are modelled as follows.                                  *)
(*   - Optional[T]: the empty set for None, {x} for a value x.             *)
(*   - str: a sequence of segments, the text between ':' delimiters, so    *)
(*     f"{a}:{b}" is a \o b and s.split(":", maxsplit=1) is Head/Tail.     *)
(*   - an awaited state-store call is one atomic step: the embedded        *)
(*     backend applies the operations of all tasks one at a time, in       *)
(*     submission order (storage.py, _SqliteRunner._runner).               *)
(***************************************************************************)
EXTENDS Integers, Sequences, FiniteSets, TLC

\* Bounds of the model.
MaxTasks == 2
MaxRefs == 1
MaxRows == 2
MaxRowLen == 2
MaxChecks == 2
MaxTime == 3
MaxTtl == 2
MaxOffset == 2
MaxValues == 2
MaxSegments == 2
MaxEntries == 1
MaxGuilds == 1
MaxRegistrations == 3
MaxCalls == 3

VARIABLES
    store,          \* the backend table: key -> [value, delete_after]
    runner,         \* the thread of _SqliteRunner: "running" or "dead"
    now,            \* the real time, in ticks
    utcOffset,      \* the offset of the local time zone from UTC, in ticks
    shadow,         \* per key: the last completed set that no completed remove followed
    last,           \* the last operation submitted to the store and its result
    comp,           \* the registered component that the references were minted for
    sentEphemeral,  \* whether the response that carried the components had the EPHEMERAL flag
    task,           \* per click task: its position in Component.__call__ and its locals
    deletions,      \* the tasks that requested delete_interaction_message(parent.token)
    req,            \* the HTTP request handled by SlashCommands.__root
    root,           \* the position of __root in its code, and what it has done
    handlers,       \* SlashCommands._global_error_handlers: exception type -> handler
    cmd,            \* the registered command: its checks pipeline and error handler
    call,           \* the position of Command.__call__ in its code, and what it has done
    resp,           \* the Response being normalized by into_response_payload
    rpc,            \* into_response_payload: position
    rrow,           \* into_response_payload: index of the block being processed
    rcol,           \* process_block: index of the component being processed
    actionRows,     \* into_response_payload: action_rows
    componentBlock, \* into_response_payload: component_block of the current block
    undo,           \* into_response_payload: custom ids the except clause still has to remove
    nextRef,        \* the number of reference ids minted so far
    written,        \* the store keys written while normalizing resp
    rout,           \* into_response_payload: the payload type returned, or the error raised
    sel,            \* one click on a component that carries values: inputs and bound arguments
    dom,            \* the last operation made through a PrefixedState, and its result
    reg,            \* SlashCommands._commands and _components, and the registrations made
    red,            \* the keys of the Redis server, and the last call made on both backends
    sq,             \* _SqliteRunner._queue, and the calls of the tasks on SqliteBackend
    ev,             \* the event loop thread and the handlers of the interactions in flight
    http,           \* HttpHandler.request: the attempts made and how the call ended
    pipe,           \* Command._checks_pipeline and the add_check calls made on it
    apps,           \* the error-handler tables of the SlashCommands instances
    defd            \* a deferred component, the registry and the resolutions made

clickVars == <<comp, sentEphemeral, task, deletions>>
respVars == <<resp, rpc, rrow, rcol, actionRows, componentBlock, undo, nextRef, written, rout>>
rootVars == <<req, root, handlers>>
backVars == <<red, sq>>
extVars == <<ev, http, pipe, apps, defd>>
libVars == <<sel, dom, reg, backVars, extVars>>
callVars == <<cmd, call, libVars>>
clockVars == <<now, utcOffset, shadow, last>>
vars == <<store, runner, clockVars, clickVars, respVars, rootVars, callVars>>
nonClickVars == <<respVars, rootVars, callVars, clockVars>>
nonRespVars == <<clickVars, rootVars, callVars, clockVars>>
nonCallVars == <<store, runner, clickVars, respVars, rootVars, clockVars, libVars>>
nonStoreVars == <<clickVars, respVars, rootVars, callVars>>

----------------------------------------------------------------------------
\* Python values

None == {}
Some(x) == {x}
Value(o) == CHOOSE x \in o : TRUE

COMMAND_STATE_TARGET == "command-state"

\* str(uuid.uuid4()): a fresh text without ':'
Ref(i) == <<"r" \o ToString(i)>>
Refs == {Ref(i) : i \in 1..MaxRefs}

\* f"{x}" of an Optional[str]
FStr(o) == IF o = None THEN <<"None">> ELSE Value(o)

\* f"{a}:{b}"
FormatColon(a, b) == a \o b

\* s.split(":", maxsplit=1): the first segment, and the rest as a list of
\* zero or one strings
SplitFirst(s) == <<SubSeq(s, 1, 1), IF Len(s) > 1 THEN Some(Tail(s)) ELSE None>>

----------------------------------------------------------------------------
\* The state store

\* datetime.utcnow() at the real time t: the wall clock of UTC
UtcNow(t) == t

\* datetime.timestamp() of a naive datetime: the wall time is read as local time
Timestamp(wall, offset) == wall - offset

\* datetime.utcfromtimestamp(ts): the wall clock of UTC at ts
UtcFromTimestamp(ts) == ts

\* pickle.dumps and pickle.loads
PickleDumps(v) == <<"pickle", v>>
PickleLoads(b) == b[2]

\* the ttl argument of State.set: None, or a number of seconds given as a
\* float, a timedelta, or an int
Ttls ==
    {None} \cup {Some(d) : d \in [kind : {"float", "timedelta", "int"}, seconds : 1..MaxTtl]}

\* State.set: only a float is converted to a timedelta
ToTimedelta(ttl) ==
    IF ttl # None /\ Value(ttl).kind = "float"
    THEN Some([Value(ttl) EXCEPT !.kind = "timedelta"])
    ELSE ttl

\* _SqliteRunner._delete
BackendDelete(st, key) == [k \in (DOMAIN st) \ {key} |-> st[k]]

\* _SqliteRunner._set: datetime + ttl needs a timedelta, and the INSERT needs
\* a key that is not in the table; otherwise the statement raises
RunnerSet(st, key, value, ttl, t, offset) ==
    IF ttl # None /\ Value(ttl).kind # "timedelta"
    THEN [store |-> st, raised |-> "TypeError"]
    ELSE IF key \in DOMAIN st
    THEN [store |-> st, raised |-> "IntegrityError"]
    ELSE [store |-> (key :> [value |-> value,
                             delete_after |->
                                IF ttl = None THEN None
                                ELSE Some(Timestamp(UtcNow(t) + Value(ttl).seconds, offset))])
                    @@ st,
          raised |-> ""]

\* _SqliteRunner._get: an expired row is deleted and None is returned
RunnerGet(st, key, t, offset) ==
    IF key \notin DOMAIN st
    THEN [store |-> st, result |-> None]
    ELSE IF /\ st[key].delete_after # None
            /\ UtcNow(t) > UtcFromTimestamp(Value(st[key].delete_after))
    THEN [store |-> BackendDelete(st, key), result |-> None]
    ELSE [store |-> st, result |-> Some(st[key].value)]

\* _SqliteRunner._runner: the loop of the thread ends when an operation raises
RunnerAfter(raised) == IF raised = "" THEN "running" ELSE "dead"

\* PrefixedState: f"{self.prefix}:{key}"
PrefixedKey(prefix, key) == FormatColon(<<prefix>>, FStr(key))

\* PrefixedState.remove -> State.remove -> SqliteBackend.remove
StateRemoveAll(st, prefix, key) == <<>>
StateRemove(st, prefix, key) == BackendDelete(st, PrefixedKey(prefix, key))

\* PrefixedState.get -> State.get -> SqliteBackend.get
StateGet(st, prefix, key, t, offset) ==
    LET got == RunnerGet(st, PrefixedKey(prefix, key), t, offset)
    IN [store |-> got.store,
        result |-> IF got.result = None THEN None
                   ELSE Some(PickleLoads(Value(got.result)))]

\* PrefixedState.set -> State.set -> SqliteBackend.store
StateSet(st, prefix, key, value, ttl, t, offset) ==
    RunnerSet(st, PrefixedKey(prefix, key), PickleDumps(value), ToTimedelta(ttl), t, offset)

\* a row without expiry
Entry(v) == [value |-> PickleDumps(v), delete_after |-> None]

----------------------------------------------------------------------------
\* Component clicks: Component.__call__(app, interaction)

Tasks == 1..MaxTasks

\* a registered component: the oneshot flag, and how the callback declares
\* its InvokeContext parameter ("none": no such parameter, "required": no
\* default, "default": with a default)
\* a registered component also says what component_context its callback
\* gives to the Response it returns ("nothing": none, "counter": the count it
\* received plus one, as the counter button of tests/app.py)
ComponentKinds ==
    [oneshot : BOOLEAN, ctxParam : {"none", "required", "default"},
     supplies : {"nothing", "counter"}]

\* the components whose callbacks return responses without component_context
PlainKinds == {c \in ComponentKinds : c.supplies = "nothing"}

\* the custom id the component was registered under
BaseId == <<"button">>

\* Component.__init__: the parameter annotated InvokeContext, if any
PassContextTo(c) == IF c.ctxParam = "none" THEN None ELSE Some("ctx")

\* OptionalAsyncCallable.defaults: the parameters that have a default
Defaults(c) == IF c.ctxParam = "default" THEN {"ctx"} ELSE {}

\* the InvokeContext written for the components of one response: "parent" is
\* the parent interaction (its token) or None, "ephemeral" exists only when
\* the response's own component_context supplied it
\* "count" is a key of the application, present when a response supplied it
Contexts ==
    [parent : {None, Some("token")}, ephemeral : {None, Some(TRUE)}, count : {None}]

\* Component._get_kwargs: _, *reference_id = custom_id.split(":", maxsplit=1)
ReferenceId(cid) == SplitFirst(cid)[2]

\* the locals of a task that has not been called yet
IdleTask == [pc |-> "idle", cid |-> <<>>, ctx |-> None, kw |-> "", resp |-> None,
             exc |-> "", late |-> FALSE, among |-> {}, destroyed |-> FALSE,
             afterDestroy |-> FALSE]

TRef(t) == ReferenceId(task[t].cid)

\* the callback has been entered by task t
Started(t) ==
    \/ task[t].pc \in {"running", "cleanup", "delete", "done"}
    \/ task[t].pc = "raised" /\ task[t].exc \in {"HandlerError", "AttributeError"}

\* task t has left Component.__call__
Finished(t) == task[t].pc \in {"done", "raised"}

\* Component.__call__ is entered with an interaction carrying custom id cid.
\* late and among record what the click arrived to: the callback had
\* already been entered for this custom id; the clicks of this custom id
\* that are being processed. afterDestroy: a destroy or purge_sync of the
\* reference of this custom id had completed
ComponentCall(t, cid) ==
    /\ task[t].pc = "idle"
    /\ task' = [task EXCEPT ![t] = [@ EXCEPT
            !.pc = "get",
            !.cid = cid,
            !.late = \E u \in Tasks : u # t /\ task[u].cid = cid /\ Started(u),
            !.among = {u \in Tasks : u # t /\ task[u].cid = cid /\ ~Finished(u)},
            !.afterDestroy = \E u \in Tasks : u # t /\ task[u].cid = cid
                                                   /\ task[u].destroyed]]
    /\ UNCHANGED <<store, runner, comp, sentEphemeral, deletions, nonClickVars>>

\* what the callback receives for its context parameter
ContextKwarg(c, ctx) ==
    IF PassContextTo(c) # None /\ ctx # None THEN "stored"
    ELSE IF c.ctxParam = "default" THEN "default"
    ELSE "nothing"

\* the expiry check of Component._get_kwargs
Expired(c, ctx) ==
    ctx = None /\ (PassContextTo(c) = None \/ Value(PassContextTo(c)) \notin Defaults(c))

\* a component that forgets the oneshot removal
AfterGetNoRemove(c) == "running"

\* the position after the context was fetched and accepted: the oneshot
\* removal is awaited first, otherwise Component._invoke awaits the callback,
\* which starts to run at once
AfterGet(c) == IF c.oneshot THEN "remove" ELSE "running"

\* Component._get_kwargs: ctx = await state.get(reference_id), then the
\* code up to the next await
GetContext(t) ==
    /\ task[t].pc = "get"
    /\ runner = "running"
    /\ LET got == StateGet(store, COMMAND_STATE_TARGET, TRef(t), now, utcOffset)
           ctx == got.result
       IN /\ store' = got.store
          /\ task' = [task EXCEPT ![t] =
                IF Expired(comp, ctx)
                THEN [@ EXCEPT !.pc = "raised", !.exc = "AbortInvoke", !.ctx = ctx]
                ELSE [@ EXCEPT !.pc = AfterGet(comp), !.ctx = ctx,
                               !.kw = ContextKwarg(comp, ctx)]]
    /\ UNCHANGED <<runner, comp, sentEphemeral, deletions, nonClickVars>>

\* Component._get_kwargs: if self._oneshot: await state.remove(reference_id);
\* then Component._invoke awaits the callback, which starts to run
OneshotRemove(t) ==
    /\ task[t].pc = "remove"
    /\ runner = "running"
    /\ store' = StateRemove(store, COMMAND_STATE_TARGET, TRef(t))
    /\ task' = [task EXCEPT ![t].pc = "running"]
    /\ UNCHANGED <<runner, comp, sentEphemeral, deletions, nonClickVars>>

\* ctx.get("ephemeral", False) of the dict Component._get_kwargs returns
CtxEphemeral(ctx) == ctx # None /\ Value(ctx).ephemeral = Some(TRUE)

\* ctx.get("parent")
CtxParent(ctx) == IF ctx = None THEN None ELSE Value(ctx).parent

\* Component.__call__: the condition under which the parent is deleted
ShouldDelete(ctx, delete_parent) ==
    (~CtxEphemeral(ctx)) /\ delete_parent /\ CtxParent(ctx) # None

\* the callback returns a Response; Component.__call__ continues to its
\* next await
HandlerReturns(t, delete_parent) ==
    /\ task[t].pc = "running"
    /\ task' = [task EXCEPT ![t] = [@ EXCEPT
            !.resp = Some(delete_parent),
            !.pc = IF ShouldDelete(task[t].ctx, delete_parent)
                   THEN (IF TRef(t) # None THEN "cleanup" ELSE "delete")
                   ELSE "done"]]
    /\ UNCHANGED <<store, runner, comp, sentEphemeral, deletions, nonClickVars>>

\* the callback returns None: resp.delete_parent raises AttributeError
HandlerReturnsNone(t) ==
    /\ task[t].pc = "running"
    /\ task' = [task EXCEPT ![t] = [@ EXCEPT !.pc = "raised", !.exc = "AttributeError"]]
    /\ UNCHANGED <<store, runner, comp, sentEphemeral, deletions, nonClickVars>>

\* the callback raises; no error handler is registered (self._on_error is
\* None), so Component.__call__ re-raises
HandlerRaises(t) ==
    /\ task[t].pc = "running"
    /\ task' = [task EXCEPT ![t] = [@ EXCEPT !.pc = "raised", !.exc = "HandlerError"]]
    /\ UNCHANGED <<store, runner, comp, sentEphemeral, deletions, nonClickVars>>

\* Component.__call__: await self.app.state[...].remove(reference_id)
CleanupRemove(t) ==
    /\ task[t].pc = "cleanup"
    /\ runner = "running"
    /\ store' = StateRemove(store, COMMAND_STATE_TARGET, TRef(t))
    /\ task' = [task EXCEPT ![t].pc = "delete"]
    /\ UNCHANGED <<runner, comp, sentEphemeral, deletions, nonClickVars>>

\* Component.__call__: await self.app._http.delete_interaction_message(parent.token)
DeleteParent(t) ==
    /\ task[t].pc = "delete"
    /\ deletions' = deletions \cup {t}
    /\ task' = [task EXCEPT ![t].pc = "done"]
    /\ UNCHANGED <<store, runner, comp, sentEphemeral, nonClickVars>>

\* the callback awaits ctx.destroy() on the InvokeContext it was given:
\* PrefixedState.remove(reference_id)
Destroy(t) ==
    /\ task[t].pc = "running"
    /\ task[t].kw = "stored"
    /\ runner = "running"
    /\ store' = StateRemove(store, COMMAND_STATE_TARGET, TRef(t))
    /\ task' = [task EXCEPT ![t].destroyed = TRUE]
    /\ UNCHANGED <<runner, comp, sentEphemeral, deletions, nonClickVars>>

\* the callback calls ctx.purge_sync(): PrefixedState.remove_sync prefixes
\* the key and State.remove_sync runs self.remove, PrefixedState.remove,
\* which prefixes it again
PurgeSync(t) ==
    /\ task[t].pc = "running"
    /\ task[t].kw = "stored"
    /\ runner = "running"
    /\ store' = StateRemove(store, COMMAND_STATE_TARGET,
                            Some(PrefixedKey(COMMAND_STATE_TARGET, TRef(t))))
    /\ task' = [task EXCEPT ![t].destroyed = TRUE]
    /\ UNCHANGED <<runner, comp, sentEphemeral, deletions, nonClickVars>>

\* ctx.get("count", 0)
CtxCount(ctx) ==
    IF ctx # None /\ Value(ctx).count # None THEN Value(Value(ctx).count) ELSE 0

\* the component_context the callback gives to its Response; a key that is
\* None here is not in the dict
Supplied(c, ctx) ==
    [parent |-> None, ephemeral |-> None,
     count |-> IF c.supplies = "counter" THEN Some(CtxCount(ctx) + 1) ELSE None]

\* {**a, **b} for one key: the value of b when b has the key
Over(a, b) == IF b # None THEN b ELSE a

\* Component.__call__: resp._payload.component_context =
\* {**resp._payload.component_context, **ctx}, where ctx is the dict read
\* from the store (it always has the key "parent"), or {} when none was stored
MergedContext(new, ctx) ==
    IF ctx = None
    THEN [ctx_parent |-> None, ctx_ephemeral |-> new.ephemeral, ctx_count |-> new.count]
    ELSE [ctx_parent |-> Some(Value(ctx).parent),
          ctx_ephemeral |-> Over(new.ephemeral, Value(ctx).ephemeral),
          ctx_count |-> Over(new.count, Value(ctx).count)]

\* the custom ids a click can carry: the registered id alone, or with a reference
ClickIds == {BaseId} \cup {FormatColon(BaseId, r) : r \in Refs}

----------------------------------------------------------------------------
\* Responses: Response.into_response_payload and Response.process_block

\* response.py: at most 5 action rows
MaxActionRows == 5

\* the components a response can carry: a button, a select menu, or a
\* link-style button (url set, custom id None)
Kinds == {"button", "select", "link"}

\* ComponentContext.url is None
UrlIsNone(kind) == kind # "link"

\* the custom id the component was registered under; None for a link
RegisteredId(kind) == IF kind = "link" THEN None ELSE Some(<<kind>>)

\* an element of Response.components: a single component, or a list
Blocks ==
    [single : {TRUE}, items : [1..1 -> Kinds]]
    \cup [single : {FALSE}, items : UNION {[1..n -> Kinds] : n \in 0..MaxRowLen}]

SingleButton == [single |-> TRUE, items |-> <<"button">>]

\* Response(...) together with the arguments of into_response_payload
PlainResponse(components) ==
    [content |-> TRUE, delete_parent |-> FALSE, components |-> components,
     response_type |-> None, default_type |-> "CHANNEL_MESSAGE_WITH_SOURCE",
     parent |-> Some("token"), ctx_parent |-> None, ctx_ephemeral |-> None,
     ctx_count |-> None, supplied_count |-> None, flags_ephemeral |-> FALSE]

\* every shape of the component rows, on an otherwise plain response
ShapeResponses ==
    {PlainResponse(Some(rows)) : rows \in UNION {[1..n -> Blocks] : n \in 0..MaxRows}}

\* every combination of the other attributes, on simple component rows
AttrResponses ==
    [content : BOOLEAN, delete_parent : BOOLEAN,
     components : {None, Some(<<>>), Some(<<SingleButton>>)},
     response_type : {None, Some("UPDATE_MESSAGE")},
     default_type : {"CHANNEL_MESSAGE_WITH_SOURCE", "UPDATE_MESSAGE"},
     parent : {None, Some("token")},
     ctx_parent : {None}, ctx_ephemeral : {None, Some(TRUE)},
     ctx_count : {None}, supplied_count : {None}, flags_ephemeral : BOOLEAN]

\* responses of up to one row more than the limit
LongResponses ==
    {PlainResponse(Some([i \in 1..n |-> SingleButton])) : n \in 0..(MaxActionRows + 1)}

Responses == ShapeResponses \cup AttrResponses \cup LongResponses

\* Response.is_empty
IsEmpty(r) ==
    ~(r.content \/ (r.components # None /\ Len(Value(r.components)) > 0))

\* the type of the payload that carries the action rows
PayloadType(r) ==
    IF r.response_type # None THEN Value(r.response_type) ELSE r.default_type

\* process_block: the dict written for each component of the response
\* {"parent": parent, **self._payload.component_context}: a "parent" key of
\* the component context replaces the parent interaction
StoredContext(r) ==
    [parent |-> IF r.ctx_parent # None THEN Value(r.ctx_parent) ELSE r.parent,
     ephemeral |-> r.ctx_ephemeral,
     count |-> r.ctx_count]

\* process_block: data.custom_id = f"{data.custom_id}:{reference_id}"
SentId(kind, ref) == Some(FormatColon(FStr(RegisteredId(kind)), ref))

\* process_block: the ComponentContext placed in the row
Data(kind, ref) ==
    [kind |-> kind, custom_id |-> IF UrlIsNone(kind) THEN SentId(kind, ref) ELSE RegisteredId(kind)]

\* process_block: ttl=self._payload.component_context.get("ttl"), for a
\* component context without that key
ContextTtl(r) == None

\* a process_block that mints the reference but never writes its entry
SetOutcomeSkipped(st, kind, ref, r, t, offset) == [store |-> st, raised |-> ""]

\* process_block: await state.set(reference_id, {...}, ttl=...) for a
\* component without url; nothing is written for a link
SetOutcome(st, kind, ref, r, t, offset) ==
    IF UrlIsNone(kind)
    THEN StateSet(st, COMMAND_STATE_TARGET, Some(ref), StoredContext(r), ContextTtl(r), t, offset)
    ELSE [store |-> st, raised |-> ""]

WrittenAfter(w, kind, ref) ==
    IF UrlIsNone(kind) THEN w \cup {PrefixedKey(COMMAND_STATE_TARGET, Some(ref))} ELSE w

\* process_block: a select menu that is not the first of its row is rejected
SelectRejected(kind, block) == kind = "select" /\ Len(block) > 0

\* into_response_payload, except clause: the key passed to state.remove for
\* a component of the rows built so far
UndoKey(c) == c.custom_id

\* the custom ids the except clause removes, in order: the finished rows,
\* then the current block; components without custom id are skipped
RECURSIVE Flatten(_)
Flatten(rows) == IF rows = <<>> THEN <<>> ELSE Head(rows) \o Flatten(Tail(rows))

UndoList(rows, block) ==
    LET all == Flatten(rows) \o block
    IN SelectSeq([i \in 1..Len(all) |-> UndoKey(all[i])], LAMBDA k : k # None)

RespIdleAt(minted) ==
    /\ resp = PlainResponse(None)
    /\ rpc = "idle"
    /\ rrow = 1
    /\ rcol = 1
    /\ actionRows = <<>>
    /\ componentBlock = <<>>
    /\ undo = <<>>
    /\ nextRef = minted
    /\ written = {}
    /\ rout = ""

RespIdle == RespIdleAt(0)

\* an into_response_payload without the limit on action rows
TooManyRowsIgnored(components) == FALSE

\* into_response_payload: len(components) > 5
TooManyRows(components) == Len(components) > MaxActionRows

\* into_response_payload up to the loop over the blocks
IntoResponsePayload(r) ==
    /\ rpc = "idle"
    /\ resp' = r
    /\ IF IsEmpty(r)
       THEN rpc' = "returned" /\ rout' = "DEFERRED_UPDATE_MESSAGE"
       ELSE IF r.components = None
       THEN rpc' = "returned" /\ rout' = "CHANNEL_MESSAGE_WITH_SOURCE"
       ELSE IF TooManyRows(Value(r.components))
       THEN rpc' = "raised" /\ rout' = "ValueError"
       ELSE IF Len(Value(r.components)) = 0
       THEN rpc' = "returned" /\ rout' = PayloadType(r)
       ELSE rpc' = "rows" /\ rout' = ""
    /\ UNCHANGED <<store, runner, rrow, rcol, actionRows, componentBlock, undo, nextRef,
                   written, nonRespVars>>

\* the loop moves to the next block, or the payload is returned
NextBlock(rows) ==
    /\ actionRows' = rows
    /\ componentBlock' = <<>>
    /\ rrow' = rrow + 1
    /\ rcol' = 1
    /\ undo' = undo
    /\ IF rrow = Len(Value(resp.components))
       THEN rpc' = "returned" /\ rout' = PayloadType(resp)
       ELSE rpc' = "rows" /\ rout' = rout

\* process_block raised: the except clause of into_response_payload starts
Except(error) ==
    /\ undo' = UndoList(actionRows, componentBlock)
    /\ rpc' = IF undo' = <<>> THEN "raised" ELSE "rollback"
    /\ rout' = error
    /\ UNCHANGED <<store, runner, rrow, rcol, actionRows, componentBlock, nextRef, written>>

\* process_block: the reference id, the awaited state.set, and the code up
\* to the next await; when the set fails in the runner thread the await
\* never completes
Place(kind, ref, endOfRow) ==
    LET out == SetOutcome(store, kind, ref, resp, now, utcOffset)
    IN /\ store' = out.store
       /\ runner' = RunnerAfter(out.raised)
       /\ IF out.raised # ""
          THEN /\ rpc' = "hung"
               /\ UNCHANGED <<rrow, rcol, actionRows, componentBlock, undo, nextRef,
                              written, rout>>
          ELSE /\ written' = WrittenAfter(written, kind, ref)
               /\ nextRef' = IF UrlIsNone(kind) THEN nextRef + 1 ELSE nextRef
               /\ IF endOfRow
                  THEN NextBlock(Append(actionRows, Append(componentBlock, Data(kind, ref))))
                  ELSE /\ componentBlock' = Append(componentBlock, Data(kind, ref))
                       /\ rcol' = rcol + 1
                       /\ UNCHANGED <<rpc, rrow, actionRows, undo, rout>>

\* the deferred components of the program: one DeferredButton and one
\* DeferredSelect object, neither with a url
DeferredKinds == {"DeferredButton", "DeferredSelect"}

\* process_block: isinstance(c, DeferredComponent), for the component the
\* loop is at
CurrentDeferred ==
    /\ rpc = "rows"
    /\ LET block == Value(resp.components)[rrow]
       IN /\ Len(block.items) > 0
          /\ block.items[IF block.single THEN 1 ELSE rcol] \in DeferredKinds

\* process_block, one component of the current block
ProcessComponent ==
    /\ rpc = "rows"
    /\ runner = "running"
    /\ ~CurrentDeferred
    /\ LET block == Value(resp.components)[rrow]
           ref == Ref(nextRef + 1)
       IN IF block.single
          THEN Place(block.items[1], ref, TRUE)
          ELSE IF Len(block.items) = 0
          THEN /\ NextBlock(Append(actionRows, <<>>))
               /\ UNCHANGED <<store, runner, written, nextRef>>
          ELSE LET kind == block.items[rcol]
               IN IF SelectRejected(kind, componentBlock)
                  THEN Except("ValueError")
                  ELSE Place(kind, ref, rcol = Len(block.items))
    /\ UNCHANGED <<resp, nonRespVars>>

\* into_response_payload, except clause: one awaited state.remove; after the
\* last one the error is raised again
Rollback ==
    /\ rpc = "rollback"
    /\ runner = "running"
    /\ store' = StateRemove(store, COMMAND_STATE_TARGET, Head(undo))
    /\ undo' = Tail(undo)
    /\ rpc' = IF undo' = <<>> THEN "raised" ELSE "rollback"
    /\ UNCHANGED <<runner, resp, rrow, rcol, actionRows, componentBlock, nextRef, written,
                   rout, nonRespVars>>

----------------------------------------------------------------------------
\* The HTTP endpoint: SlashCommands.__root and _invoke_with_handlers

\* the X-Signature-Ed25519 header: absent, not a hex string, a well-formed
\* signature that does not verify over timestamp||body, or one that does
Signatures == {"missing", "nonhex", "forged", "valid"}

\* the X-Signature-Timestamp header
Timestamps == {"missing", "present"}

\* the body: not JSON, JSON that is not an interaction, or an interaction
Bodies == {"notjson", "badschema", "PING", "APPLICATION_COMMAND",
           "MESSAGE_COMPONENT", "APPLICATION_COMMAND_AUTOCOMPLETE"}

CommandName == "cmd"

\* data.name of a command interaction
Names == {CommandName, "other"}

\* data.custom_id of a component interaction
CustomIds == {None} \cup {Some(c) : c \in ClickIds \cup {<<"other">>}}

\* data.name and data.custom_id are present where the interaction type has them
Requests ==
    {r \in [signature : Signatures, timestamp : Timestamps, body : Bodies,
            name : Names, custom_id : CustomIds] :
        /\ (r.body # "APPLICATION_COMMAND" => r.name = CommandName)
        /\ (r.body # "MESSAGE_COMPONENT" => r.custom_id = None)}

\* SlashCommands._commands and SlashCommands._components
RegisteredCommands == {CommandName}
RegisteredComponents == {BaseId}

\* what a handler or an error handler can hand to process_response
ResultKinds == {"None", "ResponsePayload", "ResponseData", "Response", "other"}

RejectedRow == [single |-> FALSE, items |-> <<"button", "select">>]

\* the responses an error handler builds
ErrorResponses ==
    {[PlainResponse(c) EXCEPT !.content = t, !.response_type = rt] :
        c \in {None, Some(<<SingleButton>>), Some(<<RejectedRow>>)},
        t \in BOOLEAN, rt \in {None, Some("UPDATE_MESSAGE")}}

HandlerResults ==
    [kind : ResultKinds \ {"Response"}, response : {PlainResponse(None)}]
    \cup [kind : {"Response"}, response : ErrorResponses]

\* error_handlers.py: the handlers every application starts with
KNOWN_ERRORS ==
    [e \in {"UserMissingPermissions", "AbortInvoke"} |->
        [kind |-> "Response", response |-> PlainResponse(None)]]

\* SlashCommands.register_error
RegisterError(table, error, result) == (error :> result) @@ table

\* the error types an application registers a handler for: the type of the
\* error, or its base class
RegisteredErrors == {"TypeError", "Exception"}

\* a table in which no error ever finds its handler
GetHandlerNever(table, e) == None

\* _invoke_with_handlers: self._global_error_handlers.get(type(e)), a
\* lookup of the exact type of the error
GetHandler(table, e) == IF e \in DOMAIN table THEN Some(table[e]) ELSE None

\* the positional arguments _invoke_with_handlers passes to the callback
DispatchArgs == <<"interaction">>

\* the positional parameters of Command.__call__ and Component.__call__
CallParams == <<"app", "interaction">>

\* a call binds when every required positional parameter gets an argument
\* and no argument is left over; otherwise Python raises TypeError
Binds(args, params) == Len(args) = Len(params)

\* the try block of __root up to the call of verify
HeadersPresent(r) == r.signature # "missing" /\ r.timestamp # "missing"

IdleRoot ==
    [pc |-> "idle", status |-> 0, exc |-> "", parsed |-> FALSE, built |-> FALSE,
     looked |-> FALSE, called |-> FALSE, raised |-> "", result |-> [kind |-> "None", response |-> PlainResponse(None)],
     default_type |-> "", parent |-> None, payloads |-> 0]

RootIdle ==
    /\ req = [signature |-> "missing", timestamp |-> "missing", body |-> "PING",
              name |-> CommandName, custom_id |-> None]
    /\ root = IdleRoot

\* raise HTTPException(status_code=status): the request is answered
HttpError(status) == root' = [root EXCEPT !.pc = "done", !.status = status]

\* an exception leaves __root: the server answers 500
Unhandled(e) == root' = [root EXCEPT !.pc = "done", !.status = 500, !.exc = e]

\* __root: the two header lookups, then await request.body()
Root(r) ==
    /\ root.pc = "idle"
    /\ req' = r
    /\ IF HeadersPresent(r)
       THEN root' = [root EXCEPT !.pc = "verify"]
       ELSE HttpError(401)
    /\ UNCHANGED <<store, runner, handlers, clickVars, respVars, callVars, clockVars>>

\* __root: bytes.fromhex(signature) and VerifyKey.verify; only
\* BadSignatureError and KeyError are caught
Verify ==
    /\ root.pc = "verify"
    /\ IF req.signature = "nonhex"
       THEN Unhandled("ValueError")
       ELSE IF req.signature = "forged"
       THEN HttpError(401)
       ELSE root' = [root EXCEPT !.pc = "parse"]
    /\ UNCHANGED <<store, runner, req, handlers, clickVars, respVars, callVars, clockVars>>

\* __root: json.loads(body) and Interaction(**data)
Parse ==
    /\ root.pc = "parse"
    /\ IF req.body = "notjson"
       THEN Unhandled("JSONDecodeError")
       ELSE IF req.body = "badschema"
       THEN root' = [root EXCEPT !.pc = "done", !.status = 422, !.parsed = TRUE]
       ELSE root' = [root EXCEPT !.pc = "route", !.parsed = TRUE, !.built = TRUE]
    /\ UNCHANGED <<store, runner, req, handlers, clickVars, respVars, callVars, clockVars>>

\* __root: custom_id, *_ = interaction.data.custom_id.split(":", maxsplit=1)
LookupId(cid) == SplitFirst(cid)[1]

\* __root: the switch on interaction.type and the lookup of the callback
Route ==
    /\ root.pc = "route"
    /\ IF req.body = "PING"
       THEN root' = [root EXCEPT !.pc = "done", !.status = 200, !.payloads = 1]
       ELSE IF req.body = "APPLICATION_COMMAND"
       THEN IF req.name \notin RegisteredCommands
            THEN root' = [root EXCEPT !.pc = "done", !.status = 400, !.looked = TRUE]
            ELSE root' = [root EXCEPT !.pc = "invoke", !.looked = TRUE,
                                      !.default_type = "CHANNEL_MESSAGE_WITH_SOURCE",
                                      !.parent = Some("token")]
       ELSE IF req.body = "MESSAGE_COMPONENT"
       THEN IF req.custom_id = None
            THEN HttpError(400)
            ELSE IF LookupId(Value(req.custom_id)) \notin RegisteredComponents
            THEN root' = [root EXCEPT !.pc = "done", !.status = 400, !.looked = TRUE]
            ELSE root' = [root EXCEPT !.pc = "invoke", !.looked = TRUE,
                                      !.default_type = "UPDATE_MESSAGE"]
       ELSE HttpError(400)
    /\ UNCHANGED <<store, runner, req, handlers, clickVars, respVars, callVars, clockVars>>

\* _invoke_with_handlers: resp = await callback(interaction), and the except
\* clause with the lookup handlers.get(type(e)) and resp = handler(e)
InvokeWithHandlers ==
    /\ root.pc = "invoke"
    /\ IF Binds(DispatchArgs, CallParams)
       THEN root' = [root EXCEPT !.pc = "called", !.called = TRUE]
       ELSE LET handler == GetHandler(handlers, "TypeError")
            IN IF handler # None
               THEN root' = [root EXCEPT !.pc = "process", !.exc = "TypeError",
                                         !.raised = "TypeError",
                                         !.result = Value(handler)]
               ELSE root' = [root EXCEPT !.pc = "done", !.status = 500,
                                         !.exc = "TypeError", !.raised = "TypeError"]
    /\ UNCHANGED <<store, runner, req, handlers, clickVars, respVars, callVars, clockVars>>

\* Response(): no content, no components
EmptyResponse == [PlainResponse(None) EXCEPT !.content = FALSE]

\* process_response: the Response that is normalized, with the arguments
\* default_response_type and parent_interaction
ToNormalize(result) ==
    [(IF result.kind = "None" THEN EmptyResponse ELSE result.response)
        EXCEPT !.default_type = root.default_type, !.parent = root.parent]

\* process_response for None or a Response: into_response_payload starts
ProcessResponse ==
    /\ root.pc = "process"
    /\ root.result.kind \in {"None", "Response"}
    /\ IntoResponsePayload(ToNormalize(root.result))

\* process_response for anything else: a payload is passed through, data is
\* wrapped, every other value is rejected
ProcessResponsePass ==
    /\ root.pc = "process"
    /\ root.result.kind \notin {"None", "Response"}
    /\ IF root.result.kind = "other"
       THEN Unhandled("ValidationError")
       ELSE root' = [root EXCEPT !.pc = "done", !.status = 200, !.payloads = 1]
    /\ UNCHANGED <<store, runner, req, handlers, clickVars, respVars, callVars, clockVars>>

\* _invoke_with_handlers returns the payload of into_response_payload, or
\* its exception leaves __root
RootReturn ==
    /\ root.pc = "process"
    /\ rpc \in {"returned", "raised"}
    /\ IF rpc = "returned"
       THEN root' = [root EXCEPT !.pc = "done", !.status = 200, !.payloads = 1]
       ELSE Unhandled(rout)
    /\ UNCHANGED <<store, runner, req, handlers, clickVars, respVars, callVars, clockVars>>

----------------------------------------------------------------------------
\* Commands: Command.__call__, the checks pipeline and CommandCheck

\* a check added to the pipeline: whether its callback raises for this
\* interaction, whether it returns the interaction it was given or another
\* one, and whether an on_reject callback was given
CheckConfigs == [raises : BOOLEAN, returns : {"same", "new"}, on_reject : BOOLEAN]

\* checks.CheckError, raised by the callback of a check
CheckError == "CheckError"

\* the interaction a check hands on when it replaces the one it was given
Replaced(interaction) == interaction \o "+"

\* Command.error: the default handler, or one registered by the user
ErrorHandlers == {"default_on_error", "registered"}

CommandConfigs ==
    [checks : UNION {[1..n -> CheckConfigs] : n \in 0..MaxChecks},
     on_error : ErrorHandlers]

\* the positional arguments Command.__call__ passes to each check
CheckArgs == <<"app", "interaction">>

\* the positional parameters of CommandCheck.__call__
CheckParams == <<"interaction">>

\* CommandCheck.__call__: the callback's value is returned; when it raises,
\* on_reject(interaction, e) is called and its value is returned; a missing
\* on_reject is None and calling it raises TypeError
CheckOutcome(c, interaction) ==
    IF ~c.raises
    THEN [raised |-> FALSE,
          value |-> IF c.returns = "new" THEN Replaced(interaction) ELSE interaction]
    ELSE IF c.on_reject THEN [raised |-> FALSE, value |-> "rejection"]
    ELSE [raised |-> TRUE, value |-> "TypeError"]

\* the interaction types that reach Command.__call__
CallTypes == {"APPLICATION_COMMAND", "APPLICATION_COMMAND_AUTOCOMPLETE"}

IdleCall ==
    [pc |-> "idle", type |-> "APPLICATION_COMMAND", options |-> FALSE, i |-> 1,
     interaction |-> "interaction", ran |-> {}, seen |-> <<>>, given |-> "",
     errGot |-> "", invoked |-> 0, result |-> "", exc |-> ""]

CallIdle ==
    /\ cmd = [checks |-> <<>>, on_error |-> "default_on_error"]
    /\ call = IdleCall

\* Command.__call__(app, interaction), as CommandGroup._group_invoker calls it
CommandCall(type, options) ==
    /\ call.pc = "idle"
    /\ call' = [call EXCEPT !.type = type, !.options = options,
                            !.pc = IF type = "APPLICATION_COMMAND_AUTOCOMPLETE"
                                   THEN "autocomplete"
                                   ELSE IF cmd.checks = <<>> THEN "invoke" ELSE "checks"]
    /\ UNCHANGED <<cmd, nonCallVars>>

\* _invoke_error_handler: default_on_error raises the exception again, a
\* registered handler's value is returned by Command.__call__
InvokeErrorHandler(e) ==
    IF cmd.on_error = "default_on_error"
    THEN call' = [call EXCEPT !.pc = "raised", !.exc = e, !.errGot = call.interaction]
    ELSE call' = [call EXCEPT !.pc = "returned", !.result = "error_response", !.exc = e,
                              !.errGot = call.interaction]

\* Command.__call__: interaction = await check(app, interaction)
CheckStep ==
    /\ call.pc = "checks"
    /\ IF ~Binds(CheckArgs, CheckParams)
       THEN InvokeErrorHandler("TypeError")
       ELSE LET out == CheckOutcome(cmd.checks[call.i], call.interaction)
            IN IF out.raised
               THEN InvokeErrorHandler(out.value)
               ELSE call' = [call EXCEPT !.interaction = out.value,
                                         !.ran = @ \cup {call.i},
                                         !.seen = Append(@, call.interaction),
                                         !.i = @ + 1,
                                         !.pc = IF call.i = Len(cmd.checks)
                                                THEN "invoke" ELSE "checks"]
    /\ UNCHANGED <<cmd, nonCallVars>>

\* Command._get_option_data: extract_options(interaction) is called with one
\* argument when the interaction carries options
OptionArgs == <<"interaction">>

\* extractors.extract_options(interaction, enums)
OptionParams == <<"interaction", "enums">>

\* Command._get_kwargs fails before the callback is called
KwargsFail == call.options /\ ~Binds(OptionArgs, OptionParams)

\* Command._invoke: the keyword arguments cannot be built
CommandKwargsRaise ==
    /\ call.pc = "invoke"
    /\ KwargsFail
    /\ call' = [call EXCEPT !.pc = "raised", !.exc = "TypeError"]
    /\ UNCHANGED <<cmd, nonCallVars>>

\* Command._invoke: the callback runs and returns a response
CommandReturns ==
    /\ call.pc = "invoke"
    /\ ~KwargsFail
    /\ call' = [call EXCEPT !.pc = "returned", !.invoked = @ + 1, !.result = "response",
                            !.given = call.interaction]
    /\ UNCHANGED <<cmd, nonCallVars>>

\* Command._invoke: the callback runs and raises; Command.__call__ has no
\* except clause around _invoke
CommandRaises ==
    /\ call.pc = "invoke"
    /\ ~KwargsFail
    /\ call' = [call EXCEPT !.pc = "raised", !.invoked = @ + 1, !.exc = "HandlerError",
                            !.given = call.interaction]
    /\ UNCHANGED <<cmd, nonCallVars>>

\* Command._handle_autocomplete: a handler answers with choices, or the
\* request is rejected
HandleAutocomplete(outcome) ==
    /\ call.pc = "autocomplete"
    /\ call' = IF outcome = "choices"
               THEN [call EXCEPT !.pc = "returned", !.result = "choices"]
               ELSE [call EXCEPT !.pc = "raised", !.exc = outcome]
    /\ UNCHANGED <<cmd, nonCallVars>>

AutocompleteOutcomes == {"choices", "HTTPException", "ValueError"}

----------------------------------------------------------------------------
\* The store used directly: State.set, State.get, State.remove and the clock

StoreKeys == Refs

StoreValues ==
    {[parent |-> Some("token"), ephemeral |-> e, count |-> None] : e \in {None, Some(TRUE)}}

\* the offsets a local time zone can have
Offsets == (0 - MaxOffset)..MaxOffset

IdleLast == [op |-> "none", key |-> Ref(1), result |-> None, at |-> 0, hung |-> FALSE]

BackendIdle ==
    /\ runner = "running"
    /\ now = 0
    /\ utcOffset = 0
    /\ shadow = [k \in StoreKeys |-> None]
    /\ last = IdleLast

\* time passes
Tick ==
    /\ now < MaxTime
    /\ now' = now + 1
    /\ UNCHANGED <<store, runner, utcOffset, shadow, last, nonStoreVars>>

\* an operation submitted to a dead runner thread is never completed
Hangs(op, key) ==
    /\ last' = [op |-> op, key |-> key, result |-> None, at |-> now, hung |-> TRUE]
    /\ UNCHANGED <<store, runner, shadow>>

\* await state.set(key, value, ttl)
StoreSet(key, value, ttl) ==
    /\ IF runner = "dead"
       THEN Hangs("set", key)
       ELSE LET out == StateSet(store, COMMAND_STATE_TARGET, Some(key), value, ttl,
                                now, utcOffset)
            IN /\ store' = out.store
               /\ runner' = RunnerAfter(out.raised)
               /\ last' = [op |-> "set", key |-> key, result |-> None, at |-> now,
                           hung |-> out.raised # ""]
               /\ shadow' = IF out.raised # "" THEN shadow
                            ELSE [shadow EXCEPT ![key] =
                                    Some([at |-> now,
                                          ttl |-> IF ttl = None THEN None
                                                  ELSE Some(Value(ttl).seconds),
                                          value |-> value])]
    /\ UNCHANGED <<now, utcOffset, nonStoreVars>>

\* await state.get(key)
StoreGet(key) ==
    /\ IF runner = "dead"
       THEN Hangs("get", key)
       ELSE LET got == StateGet(store, COMMAND_STATE_TARGET, Some(key), now, utcOffset)
            IN /\ store' = got.store
               /\ last' = [op |-> "get", key |-> key, result |-> got.result, at |-> now,
                           hung |-> FALSE]
               /\ UNCHANGED <<runner, shadow>>
    /\ UNCHANGED <<now, utcOffset, nonStoreVars>>

\* await state.remove(key)
StoreRemove(key) ==
    /\ IF runner = "dead"
       THEN Hangs("remove", key)
       ELSE /\ store' = StateRemove(store, COMMAND_STATE_TARGET, Some(key))
            /\ last' = [op |-> "remove", key |-> key, result |-> None, at |-> now,
                        hung |-> FALSE]
            /\ shadow' = [shadow EXCEPT ![key] = None]
            /\ UNCHANGED runner
    /\ UNCHANGED <<now, utcOffset, nonStoreVars>>

----------------------------------------------------------------------------
\* A click whose response is normalized, and the clicks on its components

\* the Response that Component.__call__ returns for task t, as
\* _invoke_with_handlers hands it to process_response: the components are
\* sent again, the default type is UPDATE_MESSAGE and no parent is passed
ReturnedResponse(t) ==
    LET new == Supplied(comp, task[t].ctx)
        merged == MergedContext(new, task[t].ctx)
    IN [PlainResponse(Some(<<SingleButton>>)) EXCEPT
            !.delete_parent = Value(task[t].resp),
            !.default_type = "UPDATE_MESSAGE",
            !.parent = None,
            !.ctx_parent = merged.ctx_parent,
            !.ctx_ephemeral = merged.ctx_ephemeral,
            !.ctx_count = merged.ctx_count,
            !.supplied_count = new.count]

\* process_response(default_response_type, resp) for the Response that
\* Component.__call__ returned to task t
NormalizeReturned(t) ==
    /\ task[t].pc = "done"
    /\ IntoResponsePayload(ReturnedResponse(t))

\* the references a click can carry here: the one given out before, and the
\* ones the normalized response mints
ChainIds == {FormatColon(BaseId, Ref(i)) : i \in 1..(MaxRefs + 1)}

----------------------------------------------------------------------------
\* Selected values: the values part of Component._get_kwargs

\* interaction.data.values: absent, or a list of the selected values
SelectValues == {"a", "b"}

ValueLists == {None} \cup {Some(v) : v \in UNION {[1..n -> SelectValues] : n \in 0..MaxValues}}

\* SlashCommands.select: min_values and max_values are integers, 1 unless
\* given, and max_values < min_values is rejected
SelectLimits ==
    {l \in [min : {Some(n) : n \in 0..MaxValues}, max : {Some(n) : n \in 0..MaxValues}] :
        Value(l.max) >= Value(l.min)}

\* Component.__init__ for a button: min_values and max_values stay None
ButtonLimits == [min |-> None, max |-> None]

\* the argument bound to the options parameter: the first value alone, or
\* the list
First(values) == [list |-> FALSE, items |-> <<values[1]>>]
Whole(values) == [list |-> TRUE, items |-> values]

\* a component that hands the handler the list whatever the limits are
BindValuesWhole(limits, values) == Whole(values)

\* Component._get_kwargs: the three branches on min_values and max_values
BindValues(limits, values) ==
    IF limits.min = None /\ limits.max = None THEN First(values)
    ELSE IF limits.min = Some(1) /\ limits.max = Some(1) THEN First(values)
    ELSE Whole(values)

IdleSel ==
    [pc |-> "idle", limits |-> ButtonLimits, values |-> None, ctx |-> None,
     ctxParam |-> "none", bound |-> None, exc |-> ""]

SelIdle == sel = IdleSel

\* Component._get_kwargs from the expiry check on, and the call of the
\* callback: the values are bound only when the list exists and is not empty
GetKwargsValues ==
    /\ sel.pc = "ready"
    /\ IF Expired([ctxParam |-> sel.ctxParam], sel.ctx)
       THEN sel' = [sel EXCEPT !.pc = "raised", !.exc = "AbortInvoke"]
       ELSE sel' = [sel EXCEPT !.pc = "invoked",
                               !.bound = IF sel.values # None /\ Len(Value(sel.values)) > 0
                                         THEN Some(BindValues(sel.limits, Value(sel.values)))
                                         ELSE None]
    /\ UNCHANGED <<store, runner, clickVars, respVars, rootVars, cmd, call, clockVars, dom,
                   reg, backVars, extVars>>

----------------------------------------------------------------------------
\* Domains of the managed state: MultiManagedState and PrefixedState

\* the parts of a str between its colons
Segments == {"a", "b"}

\* the strs used as domain names and as keys: one part or more
Strs == UNION {[1..n -> Segments] : n \in 1..MaxSegments}

\* PrefixedState.set/get/remove: f"{self.prefix}:{key}"
DomainKey(d, k) == FormatColon(d, k)

\* the value a caller stores: it names the domain and the key it used
Stored(d, k) == [domain |-> d, key |-> k]

IdleDom ==
    [op |-> "none", d |-> <<"a">>, k |-> <<"a">>, result |-> None, removed |-> None,
     replaced |-> None, hung |-> FALSE]

DomIdle == dom = IdleDom

\* an operation submitted to a dead runner thread is never completed
DomainHangs(op, d, k) ==
    /\ dom' = [IdleDom EXCEPT !.op = op, !.d = d, !.k = k, !.hung = TRUE]
    /\ UNCHANGED <<store, runner>>

\* the row the backend holds under a key, if any
Held(st, key) == IF key \in DOMAIN st THEN Some(PickleLoads(st[key].value)) ELSE None

\* await app.state[d].set(k, value)
DomainSet(d, k) ==
    /\ Cardinality(DOMAIN store) < MaxEntries \/ DomainKey(d, k) \in DOMAIN store
    /\ IF runner = "dead"
       THEN DomainHangs("set", d, k)
       ELSE LET out == RunnerSet(store, DomainKey(d, k), PickleDumps(Stored(d, k)),
                                 ToTimedelta(None), now, utcOffset)
            IN /\ store' = out.store
               /\ runner' = RunnerAfter(out.raised)
               /\ dom' = [IdleDom EXCEPT !.op = "set", !.d = d, !.k = k,
                                         !.replaced = Held(store, DomainKey(d, k)),
                                         !.hung = out.raised # ""]
    /\ UNCHANGED <<clickVars, respVars, rootVars, cmd, call, clockVars, sel, reg, backVars, extVars>>

\* await app.state[d].get(k)
DomainGet(d, k) ==
    /\ IF runner = "dead"
       THEN DomainHangs("get", d, k)
       ELSE LET got == RunnerGet(store, DomainKey(d, k), now, utcOffset)
            IN /\ store' = got.store
               /\ dom' = [IdleDom EXCEPT !.op = "get", !.d = d, !.k = k,
                                         !.result = IF got.result = None THEN None
                                                    ELSE Some(PickleLoads(Value(got.result)))]
               /\ UNCHANGED runner
    /\ UNCHANGED <<clickVars, respVars, rootVars, cmd, call, clockVars, sel, reg, backVars, extVars>>

\* await app.state[d].remove(k)
DomainRemove(d, k) ==
    /\ IF runner = "dead"
       THEN DomainHangs("remove", d, k)
       ELSE /\ store' = BackendDelete(store, DomainKey(d, k))
            /\ dom' = [IdleDom EXCEPT !.op = "remove", !.d = d, !.k = k,
                                      !.removed = Held(store, DomainKey(d, k))]
            /\ UNCHANGED runner
    /\ UNCHANGED <<clickVars, respVars, rootVars, cmd, call, clockVars, sel, reg, backVars, extVars>>

----------------------------------------------------------------------------
\* Registration: SlashCommands.command, SlashCommands.button, SlashCommands.select

\* guild_id of a command: None for a global command
Scopes == {None} \cup {Some(g) : g \in 1..MaxGuilds}

\* the custom_id argument of button and select: None, or a str; the str is
\* given here by its beginning and its rest
GivenIds == {None, Some(<<"a-zA-Z0-9">>), Some(<<"a-zA-Z0-9", "x">>), Some(<<"delete">>)}

\* constr(regex="a-zA-Z0-9"): the pattern is matched at the beginning of the
\* str, and as a pattern it is the text a-zA-Z0-9 itself
MatchesIdPattern(id) == Head(id) = "a-zA-Z0-9"

\* str(uuid.uuid4()), the n-th one
Uuid(n) == <<"uuid" \o ToString(n)>>

EmptyRegistry == [commands |-> <<>>, components |-> <<>>]

IdleReg ==
    [commands |-> <<>>, components |-> <<>>, made |-> <<>>, minted |-> 0,
     outcome |-> "", before |-> EmptyRegistry, clicked |-> None]

RegIdle == reg = IdleReg

\* the registry as it is before a registration
Registry == [commands |-> reg.commands, components |-> reg.components]

\* a registry that takes every command, replacing one of the same name
RegisterCommandAlways(name, scope) ==
    /\ Len(reg.made) < MaxRegistrations
    /\ LET c == [what |-> "command", name |-> name, scope |-> scope]
       IN reg' = [reg EXCEPT !.commands = (name :> c) @@ @,
                             !.outcome = "registered",
                             !.before = Registry,
                             !.made = Append(@, c)]
    /\ UNCHANGED <<store, runner, clickVars, respVars, rootVars, cmd, call, clockVars, sel, dom, backVars, extVars>>

\* SlashCommands.command(name, guild_id=scope)(func): the name alone is
\* looked up in _commands
RegisterCommand(name, scope) ==
    /\ Len(reg.made) < MaxRegistrations
    /\ LET c == [what |-> "command", name |-> name, scope |-> scope]
       IN IF name \in DOMAIN reg.commands
          THEN reg' = [reg EXCEPT !.outcome = "CommandAlreadyExists",
                                  !.before = Registry,
                                  !.made = Append(@, [c EXCEPT !.what = "rejected"])]
          ELSE reg' = [reg EXCEPT !.commands = (name :> c) @@ @,
                                  !.outcome = "registered",
                                  !.before = Registry,
                                  !.made = Append(@, c)]
    /\ UNCHANGED <<store, runner, clickVars, respVars, rootVars, cmd, call, clockVars, sel, dom, backVars, extVars>>

\* a registry that never finds an id taken
TakenNever(id, components) == FALSE

\* `custom_id in self._components`
Taken(id, components) == id \in DOMAIN components

\* the custom id a component is created with: the given one, or a new uuid;
\* a button with a url gets None
CustomIdOf(given, link, minted) ==
    IF link THEN None
    ELSE IF given = None THEN Some(Uuid(minted + 1))
    ELSE given

\* SlashCommands.button(custom_id=given, url=...)(func) and
\* SlashCommands.select(custom_id=given)(func): the arguments are validated,
\* the id is made, the component is built, and it is entered in _components
\* unless it is a link or its id is there already
RegisterComponent(what, given, link) ==
    /\ Len(reg.made) < MaxRegistrations
    /\ what = "select" => ~link
    /\ IF given # None /\ ~MatchesIdPattern(Value(given))
       THEN reg' = [reg EXCEPT !.outcome = "ValidationError", !.before = Registry,
                               !.made = Append(@, [what |-> "rejected", name |-> "",
                                                   scope |-> None])]
       ELSE LET id == CustomIdOf(given, link, reg.minted)
                c == [what |-> what, id |-> id, link |-> link,
                      serial |-> Len(reg.made) + 1]
                minted == IF given = None THEN reg.minted + 1 ELSE reg.minted
            IN IF link
               THEN reg' = [reg EXCEPT !.outcome = "registered", !.before = Registry,
                                       !.minted = minted,
                                       !.made = Append(@, c)]
               ELSE IF Taken(Value(id), reg.components)
               THEN reg' = [reg EXCEPT !.outcome = "ComponentAlreadyExists",
                                       !.before = Registry,
                                       !.minted = minted,
                                       !.made = Append(@, [c EXCEPT !.what = "rejected"])]
               ELSE reg' = [reg EXCEPT !.components = (Value(id) :> c) @@ @,
                                       !.outcome = "registered",
                                       !.before = Registry,
                                       !.minted = minted,
                                       !.made = Append(@, c)]
    /\ UNCHANGED <<store, runner, clickVars, respVars, rootVars, cmd, call, clockVars, sel, dom, backVars, extVars>>

\* A registered component is sent in a response and clicked
\* (Response.process_block: data.custom_id = f"{data.custom_id}:{reference_id}";
\* __root and Component._get_kwargs each split what comes back)
SendAndClick(base, r) ==
    /\ base \in DOMAIN reg.components
    /\ LET sent == FormatColon(base, r)
       IN reg' = [reg EXCEPT !.clicked = Some([base |-> base, ref |-> r, sent |-> sent,
                                                lookup |-> LookupId(sent),
                                                reference |-> ReferenceId(sent)])]
    /\ UNCHANGED <<store, runner, clickVars, respVars, rootVars, cmd, call, clockVars, sel, dom, backVars, extVars>>

----------------------------------------------------------------------------
\* The two storage backends under the same calls

\* the serialized values handed to a backend
Blobs == {PickleDumps(v) : v \in StoreValues}

\* the ttl argument of StorageBackend.store: Optional[timedelta]
Timedeltas == {None} \cup {Some([kind |-> "timedelta", seconds |-> s]) : s \in 1..MaxTtl}

\* the keys of the Redis server that have not expired at time t
RedisLive(db, t) ==
    [k \in {j \in DOMAIN db : db[j].expires = None \/ t < Value(db[j].expires)} |-> db[k]]

\* self._redis.set(key, value, ex=ttl)
RedisSet(db, key, value, ttl, t) ==
    (key :> [value |-> value,
             expires |-> IF ttl = None THEN None ELSE Some(t + Value(ttl).seconds)])
    @@ RedisLive(db, t)

\* self._redis.get(key): the last stored, unexpired, unremoved value of the key
RedisGet(db, key, t) ==
    IF key \in DOMAIN RedisLive(db, t) THEN Some(db[key].value) ELSE None

\* self._redis.delete(key)
RedisDelete(db, key, t) == BackendDelete(RedisLive(db, t), key)

\* what the caller of an awaited backend method gets
Completes(v) == [status |-> "returned", result |-> v]
NeverCompletes == [status |-> "pending", result |-> None]

\* RedisBackend.get: the reply of the server is awaited and not returned
RedisBackendGet(db, key, t) == Completes(None)

IdleRed ==
    [db |-> <<>>, op |-> "none", key |-> Ref(1), live |-> None,
     sqlite |-> Completes(None), redis |-> Completes(None)]

backFrame ==
    <<now, utcOffset, shadow, last, clickVars, respVars, rootVars, cmd, call, sel, dom, reg,
      extVars>>

\* await backend.store(key, value, ttl) on a SqliteBackend and on a RedisBackend
BackendsStore(key, value, ttl) ==
    /\ LET out == IF runner = "dead" THEN [store |-> store, raised |-> "dead"]
                  ELSE RunnerSet(store, key, value, ttl, now, utcOffset)
       IN /\ store' = out.store
          /\ runner' = RunnerAfter(out.raised)
          /\ red' = [db |-> RedisSet(red.db, key, value, ttl, now),
                     op |-> "store", key |-> key, live |-> None,
                     sqlite |-> IF out.raised = "" THEN Completes(None) ELSE NeverCompletes,
                     redis |-> Completes(None)]
    /\ UNCHANGED <<backFrame, sq>>

\* await backend.get(key) on both
BackendsGet(key) ==
    /\ LET got == IF runner = "dead" THEN [store |-> store, result |-> None]
                  ELSE RunnerGet(store, key, now, utcOffset)
       IN /\ store' = got.store
          /\ red' = [db |-> RedisLive(red.db, now),
                     op |-> "get", key |-> key, live |-> RedisGet(red.db, key, now),
                     sqlite |-> IF runner = "dead" THEN NeverCompletes
                                ELSE Completes(got.result),
                     redis |-> RedisBackendGet(red.db, key, now)]
    /\ UNCHANGED <<runner, backFrame, sq>>

\* await backend.remove(key) on both
BackendsRemove(key) ==
    /\ store' = IF runner = "dead" THEN store ELSE BackendDelete(store, key)
    /\ red' = [db |-> RedisDelete(red.db, key, now),
               op |-> "remove", key |-> key, live |-> None,
               sqlite |-> IF runner = "dead" THEN NeverCompletes ELSE Completes(None),
               redis |-> Completes(None)]
    /\ UNCHANGED <<runner, backFrame, sq>>

----------------------------------------------------------------------------
\* The embedded backend: tasks submit operations, the runner thread applies them

\* a task that has made no call yet
NoCall == [pc |-> "idle", serial |-> 0, result |-> None]

IdleSq ==
    [queue |-> <<>>, calls |-> [t \in Tasks |-> NoCall], submitted |-> <<>>,
     applied |-> <<>>, running |-> TRUE, shutdown |-> "idle"]

\* the operations SqliteBackend makes: store, get and remove
Operations ==
    [action : {"SET"}, key : StoreKeys, value : {Some(b) : b \in Blobs}]
    \cup [action : {"GET", "DEL"}, key : StoreKeys, value : {None}]

\* SqliteBackend.store, get, remove up to the await: the operation is made,
\* put on the queue, and the task waits for its future
Submit(t, operation) ==
    /\ sq.shutdown = "idle"
    /\ sq.calls[t].pc # "waiting"
    /\ Len(sq.submitted) < MaxCalls
    /\ LET event == [serial |-> Len(sq.submitted) + 1, task |-> t,
                     action |-> operation.action, key |-> operation.key,
                     value |-> operation.value]
       IN sq' = [sq EXCEPT !.queue = Append(@, event),
                           !.submitted = Append(@, event),
                           !.calls[t] = [pc |-> "waiting", serial |-> event.serial,
                                         result |-> None]]
    /\ UNCHANGED <<store, runner, backFrame, red>>

\* _SqliteRunner._runner: what one operation does to the table
RunnerApply(st, event, t, offset) ==
    CASE event.action = "SET" ->
            LET out == RunnerSet(st, event.key, Value(event.value), None, t, offset)
            IN [store |-> out.store, raised |-> out.raised, result |-> None]
      [] event.action = "GET" ->
            LET got == RunnerGet(st, event.key, t, offset)
            IN [store |-> got.store, raised |-> "", result |-> got.result]
      [] event.action = "DEL" ->
            [store |-> BackendDelete(st, event.key), raised |-> "", result |-> None]

\* _SqliteRunner._runner: one turn of the loop of the thread; set_result
\* resolves the future of the operation, unless the operation raised
RunnerStep ==
    /\ runner = "running"
    /\ sq.queue # <<>>
    /\ LET event == Head(sq.queue)
           out == RunnerApply(store, event, now, utcOffset)
       IN /\ store' = out.store
          /\ runner' = IF out.raised = "" /\ ~sq.running
                        THEN "exited"
                        ELSE RunnerAfter(out.raised)
          /\ sq' = IF out.raised # ""
                   THEN [sq EXCEPT !.queue = Tail(@)]
                   ELSE [sq EXCEPT !.queue = Tail(@),
                                   !.applied = Append(@, [serial |-> event.serial,
                                                          result |-> out.result]),
                                   !.calls[event.task] = [@ EXCEPT !.pc = "done",
                                                                   !.result = out.result]]
    /\ UNCHANGED <<backFrame, red>>

\* _SqliteRunner._runner up to the first test of the loop: the thread that
\* __init__ started connects, creates the table and reads _running
ThreadStart ==
    /\ runner = "starting"
    /\ runner' = IF sq.running THEN "running" ELSE "exited"
    /\ UNCHANGED <<store, sq, backFrame, red>>

\* SqliteBackend.shutdown -> _SqliteRunner.shutdown up to the join: the
\* flag is cleared; nothing is put on the queue
Shutdown ==
    /\ sq.shutdown = "idle"
    /\ sq' = [sq EXCEPT !.running = FALSE, !.shutdown = "joining"]
    /\ UNCHANGED <<store, runner, backFrame, red>>

\* self._thread.join() returns once the thread has ended
Join ==
    /\ sq.shutdown = "joining"
    /\ runner \in {"exited", "dead"}
    /\ sq' = [sq EXCEPT !.shutdown = "returned"]
    /\ UNCHANGED <<store, runner, backFrame, red>>

BackIdle == red = IdleRed /\ sq = IdleSq

----------------------------------------------------------------------------
\* Handlers on the event loop and in the executor

extFrame ==
    <<store, runner, clockVars, clickVars, respVars, rootVars, cmd, call, sel, dom, reg,
      backVars>>

\* a task that handles no interaction
NoHandler == [pc |-> "idle", coro |-> FALSE, during |-> {}]

IdleEv == [loop |-> None, tasks |-> [t \in Tasks |-> NoHandler], arrived |-> 0]

\* the synchronous handlers that are executing
SyncExecuting == {t \in Tasks : ev.tasks[t].pc = "executing" /\ ~ev.tasks[t].coro}

\* an interaction arrives for a handler that is a coroutine function or not
\* (asyncio.iscoroutinefunction(callback)); its task waits for the loop
Arrive(t, coro) ==
    /\ ev.tasks[t].pc \in {"idle", "done"}
    /\ ev.arrived < MaxCalls
    /\ ev' = [ev EXCEPT !.tasks[t] = [pc |-> "ready", coro |-> coro,
                                      during |-> SyncExecuting],
                        !.arrived = @ + 1]
    /\ UNCHANGED <<extFrame, http, pipe, apps, defd>>

\* OptionalAsyncCallable._invoke: a coroutine function is awaited on the
\* loop, any other callback is given to loop.run_in_executor
RunsOnLoop(coro) == "loop"
RunsOn(coro) == IF coro THEN "loop" ELSE "executor"

\* the loop runs the task up to the handler
Invoke(t) ==
    /\ ev.loop = None
    /\ ev.tasks[t].pc = "ready"
    /\ ev' = [ev EXCEPT !.tasks[t].pc = "executing",
                        !.loop = IF RunsOn(ev.tasks[t].coro) = "loop" THEN Some(t) ELSE None]
    /\ UNCHANGED <<extFrame, http, pipe, apps, defd>>

\* the handler that runs on the loop returns and the task ends
LoopHandlerReturns(t) ==
    /\ ev.loop = Some(t)
    /\ ev.tasks[t].pc = "executing"
    /\ ev' = [ev EXCEPT !.tasks[t].pc = "done", !.loop = None]
    /\ UNCHANGED <<extFrame, http, pipe, apps, defd>>

\* the handler that runs in a thread of the executor returns: its future
\* is resolved
ExecutorHandlerReturns(t) ==
    /\ ev.loop # Some(t)
    /\ ev.tasks[t].pc = "executing"
    /\ ev' = [ev EXCEPT !.tasks[t].pc = "resolved"]
    /\ UNCHANGED <<extFrame, http, pipe, apps, defd>>

\* the loop resumes the task after run_in_executor and the task ends
Resume(t) ==
    /\ ev.loop = None
    /\ ev.tasks[t].pc = "resolved"
    /\ ev' = [ev EXCEPT !.tasks[t].pc = "done"]
    /\ UNCHANGED <<extFrame, http, pipe, apps, defd>>

----------------------------------------------------------------------------
\* Outbound REST requests

\* HttpHandler.request: for tries in range(5)
MaxTries == 5

\* what one attempt meets: a transport error, or a response with its status,
\* whether it has a Via header, whether its body is JSON, and whether
\* X-Ratelimit-Remaining is "0"
Answers ==
    [status : {0}, via : {FALSE}, json : {FALSE}, remaining0 : {FALSE}]
    \cup [status : {200, 403, 404, 429, 500, 503}, via : BOOLEAN, json : BOOLEAN,
           remaining0 : BOOLEAN]

TransportError(a) == a.status = 0

IdleHttp ==
    [pc |-> "idle", lock |-> "free", tries |-> 0, attempts |-> <<>>, delays |-> <<>>,
     outcome |-> "", made |-> 0]

\* HttpHandler.request up to the loop: the lock is acquired
Request ==
    /\ http.pc \in {"idle", "done"}
    /\ http.lock = "free"
    /\ http.made < MaxCalls
    /\ http' = [IdleHttp EXCEPT !.pc = "trying", !.lock = "held", !.made = http.made + 1]
    /\ UNCHANGED <<extFrame, ev, pipe, apps, defd>>

\* the body of the loop for one answer: "return", "continue", or the
\* exception raised; data.decode of a parsed or decoded body raises
\* AttributeError
AttemptOutcome(a, tries) ==
    IF TransportError(a) THEN (IF tries < 4 THEN "continue" ELSE "TransportError")
    ELSE IF a.status >= 500 THEN "AttributeError"
    ELSE IF a.status >= 200 /\ a.status < 300 THEN "return"
    ELSE IF a.status = 429
         THEN (IF ~a.via \/ ~a.json THEN "HTTPException" ELSE "continue")
    ELSE IF a.status = 403 THEN "Forbidden"
    ELSE IF a.status = 404 THEN "NotFound"
    ELSE "HTTPException"

\* the delay before the next attempt: asyncio.sleep(retry_after) after a
\* 429, asyncio.sleep(1 + tries * 2) after a transport error
Delay(a, tries) == IF TransportError(a) THEN 1 + tries * 2 ELSE 1

\* after the loop: the attempts are used up
Exhausted(a) == IF a.status >= 500 THEN "DiscordServerError" ELSE "HTTPException"

\* the lock when the request ends: released by MaybeUnlock, unless the
\* bucket was emptied and the release was left to call_later
LockAfter(lock) == IF lock = "deferred" THEN "deferred" ELSE "free"

\* one turn of the loop, and what follows the loop after the last turn
Attempt(a) ==
    /\ http.pc = "trying"
    /\ LET out == AttemptOutcome(a, http.tries)
           lock == IF /\ ~TransportError(a)
                      /\ a.status < 500
                      /\ a.remaining0
                      /\ a.status # 429
                   THEN "deferred" ELSE http.lock
           tried == [http EXCEPT !.attempts = Append(@, a), !.tries = @ + 1]
       IN http' =
            IF out # "continue"
            THEN [tried EXCEPT !.pc = "done", !.outcome = out, !.lock = LockAfter(lock)]
            ELSE IF http.tries + 1 < MaxTries
            THEN [tried EXCEPT !.delays = Append(@, Delay(a, http.tries))]
            ELSE [tried EXCEPT !.delays = Append(@, Delay(a, http.tries)),
                               !.pc = "done", !.outcome = Exhausted(a),
                               !.lock = LockAfter(lock)]
    /\ UNCHANGED <<extFrame, ev, pipe, apps, defd>>

\* loop.call_later(delta, self.lock.release)
TimerRelease ==
    /\ http.pc = "done"
    /\ http.lock = "deferred"
    /\ http' = [http EXCEPT !.lock = "free"]
    /\ UNCHANGED <<extFrame, ev, pipe, apps, defd>>

----------------------------------------------------------------------------
\* The checks pipeline of a command

\* the values given for the index: negative, inside and beyond the pipeline
Ats == (0 - 2)..MaxCalls

\* list.insert(i, x)
ListInsert(s, i, x) ==
    LET n == Len(s)
        j == IF i < 0 THEN (IF i + n < 0 THEN 0 ELSE i + n)
             ELSE IF i > n THEN n ELSE i
    IN SubSeq(s, 1, j) \o <<x>> \o SubSeq(s, j + 1, n)

\* Command.add_check: 0 <= at < len(self._checks_pipeline)
InRangeAlways(at, n) == TRUE
InRange(at, n) == 0 <= at /\ at < n

\* Command.add_check: the pipeline after the call
AddCheck(pipeline, check, at) ==
    IF InRange(at, Len(pipeline)) THEN ListInsert(pipeline, at, check)
    ELSE Append(pipeline, check)

\* a Command (initialised), or a DeferredCommand not yet given to an app
IdlePipe ==
    [initialised |-> TRUE, checks |-> <<>>, calls |-> <<>>, steps |-> <<>>, made |-> 0]

\* add_check on the Command, or on the DeferredCommand: forwarded when the
\* command exists, and recorded in the call pipeline
CommandAddCheck(at) ==
    /\ pipe.made < MaxCalls
    /\ LET check == pipe.made + 1
           after == AddCheck(pipe.checks, check, at)
       IN pipe' =
            IF pipe.initialised
            THEN [pipe EXCEPT !.checks = after,
                              !.steps = Append(@, [before |-> pipe.checks, at |-> at,
                                                   check |-> check, after |-> after]),
                              !.calls = Append(@, [check |-> check, at |-> at]),
                              !.made = check]
            ELSE [pipe EXCEPT !.calls = Append(@, [check |-> check, at |-> at]),
                              !.made = check]
    /\ UNCHANGED <<extFrame, ev, http, apps, defd>>

\* DeferredAppItem.__call__: the recorded calls are made on the new
\* command, one after another
RECURSIVE Replay(_, _, _)
Replay(pipeline, calls, steps) ==
    IF calls = <<>> THEN [checks |-> pipeline, steps |-> steps]
    ELSE LET c == Head(calls)
             after == AddCheck(pipeline, c.check, c.at)
         IN Replay(after, Tail(calls),
                   Append(steps, [before |-> pipeline, at |-> c.at, check |-> c.check,
                                  after |-> after]))

DeferredInitialise ==
    /\ ~pipe.initialised
    /\ LET done == Replay(pipe.checks, pipe.calls, pipe.steps)
       IN pipe' = [pipe EXCEPT !.initialised = TRUE, !.checks = done.checks,
                               !.steps = done.steps]
    /\ UNCHANGED <<extFrame, ev, http, apps, defd>>

\* The error-handler tables of the applications of one process

MaxApps == 2

\* the dict objects of the process: the one error_handlers.py makes at import
DictIds == {"KNOWN_ERRORS"}

\* no application made yet: dicts are the dict objects, instances the
\* reference each application holds in _global_error_handlers, log the
\* register_error calls made on each application
IdleApps == [dicts |-> [d \in DictIds |-> KNOWN_ERRORS], instances |-> <<>>,
             log |-> <<>>, raised |-> ""]

\* the table application i reads in _invoke_with_handlers
Table(i) == apps.dicts[apps.instances[i]]

\* the types register_error is called with; int is not an exception type
ErrorArguments == RegisteredErrors \cup {"AbortInvoke", "int"}

ErrorCallbacks == {h \in HandlerResults : h.kind \in {"None", "ResponseData"}}

\* SlashCommands.__init__: self._global_error_handlers = KNOWN_ERRORS, a
\* reference to the dict of the module
NewApp ==
    /\ Len(apps.instances) < MaxApps
    /\ apps' = [apps EXCEPT !.instances = Append(@, "KNOWN_ERRORS"),
                            !.log = Append(@, <<>>),
                            !.raised = ""]
    /\ UNCHANGED <<extFrame, ev, http, pipe, defd>>

\* SlashCommands.register_error on application i
AppRegisterError(i, error, callback) ==
    /\ Len(apps.log[i]) < MaxRegistrations
    /\ IF error = "int"
       THEN apps' = [apps EXCEPT !.raised = "TypeError"]
       ELSE apps' = [apps EXCEPT
                        !.dicts[apps.instances[i]] = RegisterError(@, error, callback),
                        !.log[i] = Append(@, <<error, callback>>),
                        !.raised = ""]
    /\ UNCHANGED <<extFrame, ev, http, pipe, defd>>

\* Deferred components: DeferredAppItem.__call__ from process_block

\* no deferred component resolved yet: initialised is _initialised of each
\* deferred object, components the keys of SlashCommands._components,
\* registered counts the entries made for each deferred object, sent the
\* responses normalized so far
IdleDefd ==
    [initialised |-> [d \in DeferredKinds |-> None],
     components |-> {},
     registered |-> [d \in DeferredKinds |-> 0],
     sent |-> 0]

\* the custom_id the deferred component was declared with
DeclaredId(d) == <<d>>

\* data.type == ComponentType.SELECT_MENU and len(component_block) > 0
DeferredSelectRejected(d, block) == d = "DeferredSelect" /\ Len(block) > 0

\* a deferred object that forgets it was resolved
InitialisedNever(d) == None

\* DeferredAppItem.__call__: self._initialised
Initialised(d) == defd.initialised[d]

\* process_block for a deferred component: block(app=app), that is
\* DeferredAppItem.__call__ and the wrapper of SlashCommands.button or
\* select, then the code process_block runs for the resolved component
ProcessDeferred ==
    /\ CurrentDeferred
    /\ runner = "running"
    /\ LET block == Value(resp.components)[rrow]
           d == block.items[IF block.single THEN 1 ELSE rcol]
           ref == Ref(nextRef + 1)
       IN IF Initialised(d) # None
          THEN /\ Except("TypeError")
               /\ UNCHANGED defd
          ELSE IF DeclaredId(d) \in defd.components
          THEN /\ Except("ComponentAlreadyExists")
               /\ UNCHANGED defd
          ELSE /\ defd' = [defd EXCEPT !.initialised[d] = Some(d),
                                       !.components = @ \cup {DeclaredId(d)},
                                       !.registered[d] = @ + 1]
               /\ IF ~block.single /\ DeferredSelectRejected(d, componentBlock)
                  THEN Except("ValueError")
                  ELSE Place(d, ref, block.single \/ rcol = Len(block.items))
    /\ UNCHANGED <<resp, clickVars, rootVars, clockVars, cmd, call, sel, dom, reg,
                   backVars, ev, http, pipe, apps>>

\* into_response_payload has returned or raised; the application goes on
\* to its next response
ResponseDone ==
    /\ rpc \in {"returned", "raised"}
    /\ defd.sent < MaxCalls
    /\ defd' = [defd EXCEPT !.sent = @ + 1]
    /\ rpc' = "idle"
    /\ rrow' = 1
    /\ rcol' = 1
    /\ actionRows' = <<>>
    /\ componentBlock' = <<>>
    /\ undo' = <<>>
    /\ rout' = ""
    /\ UNCHANGED <<store, runner, resp, nextRef, written, clickVars, rootVars, clockVars,
                   cmd, call, sel, dom, reg, backVars, ev, http, pipe, apps>>

\* the responses of an application that uses its deferred components
DeferredResponses ==
    {PlainResponse(Some(<<[single |-> s, items |-> <<d>>]>>)) :
        s \in BOOLEAN, d \in DeferredKinds}
    \cup {PlainResponse(Some(<<[single |-> FALSE, items |-> <<"button", d>>]>>)) :
            d \in DeferredKinds}
    \cup {PlainResponse(Some(<<SingleButton, [single |-> TRUE, items |-> <<d>>]>>)) :
            d \in DeferredKinds}


ExtIdle ==
    /\ ev = IdleEv
    /\ http = IdleHttp
    /\ pipe = IdlePipe
    /\ apps = IdleApps
    /\ defd = IdleDefd

LibIdle == SelIdle /\ DomIdle /\ RegIdle /\ BackIdle /\ ExtIdle

----------------------------------------------------------------------------
\* Specifications

\* no click is being processed
ClickIdle ==
    /\ comp = [oneshot |-> FALSE, ctxParam |-> "none", supplies |-> "nothing"]
    /\ sentEphemeral = FALSE
    /\ task = [t \in Tasks |-> IdleTask]
    /\ deletions = {}

\* the store after one response has written the same context for a set of references
Init ==
    /\ comp \in PlainKinds
    /\ sentEphemeral \in BOOLEAN
    /\ \E n \in 0..MaxRefs, v \in Contexts :
          /\ (v.ephemeral # None => sentEphemeral)
          /\ store = [k \in {PrefixedKey(COMMAND_STATE_TARGET, Some(Ref(i))) : i \in 1..n}
                        |-> Entry(v)]
    /\ task = [t \in Tasks |-> IdleTask]
    /\ deletions = {}
    /\ RespIdle
    /\ RootIdle
    /\ handlers = KNOWN_ERRORS
    /\ CallIdle
    /\ LibIdle
    /\ BackendIdle

Next ==
    \E t \in Tasks :
        \/ \E cid \in ClickIds : ComponentCall(t, cid)
        \/ GetContext(t)
        \/ OneshotRemove(t)
        \/ \E d \in BOOLEAN : HandlerReturns(t, d)
        \/ HandlerReturnsNone(t)
        \/ HandlerRaises(t)
        \/ CleanupRemove(t)
        \/ DeleteParent(t)

Spec == Init /\ [][Next]_vars


\* Normalizing one response, on an empty store
InitResponse ==
    /\ store = <<>>
    /\ ClickIdle
    /\ RespIdle
    /\ RootIdle
    /\ handlers = KNOWN_ERRORS
    /\ CallIdle
    /\ LibIdle
    /\ BackendIdle

NextResponse ==
    \/ rpc = "idle" /\ \E r \in Responses : IntoResponsePayload(r)
    \/ ProcessComponent
    \/ Rollback

SpecResponse == InitResponse /\ [][NextResponse]_vars

\* One request to the endpoint; the application has the known error handlers
\* and possibly one registered for TypeError
InitDispatch ==
    /\ comp \in PlainKinds
    /\ sentEphemeral = FALSE
    /\ \E n \in 0..MaxRefs :
          store = [k \in {PrefixedKey(COMMAND_STATE_TARGET, Some(Ref(i))) : i \in 1..n}
                     |-> Entry([parent |-> Some("token"), ephemeral |-> None,
                                count |-> None])]
    /\ task = [t \in Tasks |-> IdleTask]
    /\ deletions = {}
    /\ RespIdleAt(Cardinality(DOMAIN store))
    /\ RootIdle
    /\ CallIdle
    /\ LibIdle
    /\ BackendIdle
    /\ \/ handlers = KNOWN_ERRORS
       \/ \E e \in RegisteredErrors, h \in HandlerResults :
              handlers = RegisterError(KNOWN_ERRORS, e, h)

NextDispatch ==
    \/ \E r \in Requests : Root(r)
    \/ Verify
    \/ Parse
    \/ Route
    \/ InvokeWithHandlers
    \/ ProcessResponse
    \/ ProcessResponsePass
    \/ ProcessComponent
    \/ Rollback
    \/ RootReturn

SpecDispatch == InitDispatch /\ [][NextDispatch]_vars

\* One call of a registered command with the arguments (app, interaction)
InitCommand ==
    /\ store = <<>>
    /\ ClickIdle
    /\ RespIdle
    /\ RootIdle
    /\ handlers = KNOWN_ERRORS
    /\ cmd \in CommandConfigs
    /\ call = IdleCall
    /\ LibIdle
    /\ BackendIdle

NextCommand ==
    \/ \E type \in CallTypes, options \in BOOLEAN : CommandCall(type, options)
    \/ CheckStep
    \/ CommandKwargsRaise
    \/ CommandReturns
    \/ CommandRaises
    \/ \E outcome \in AutocompleteOutcomes : HandleAutocomplete(outcome)

SpecCommand == InitCommand /\ [][NextCommand]_vars

\* One click on a registered select menu or button whose interaction may
\* carry values; the context of the click was found or not
InitSelect ==
    /\ store = <<>>
    /\ ClickIdle
    /\ RespIdle
    /\ RootIdle
    /\ handlers = KNOWN_ERRORS
    /\ CallIdle
    /\ BackendIdle
    /\ \E l \in SelectLimits \cup {ButtonLimits}, v \in ValueLists,
          c \in {None, Some("stored")}, p \in {"none", "required", "default"} :
          sel = [IdleSel EXCEPT !.pc = "ready", !.limits = l, !.values = v,
                                !.ctx = c, !.ctxParam = p]

    /\ DomIdle
    /\ RegIdle
    /\ BackIdle
    /\ ExtIdle

NextSelect == GetKwargsValues

SpecSelect == InitSelect /\ [][NextSelect]_vars

\* The domains of one MultiManagedState on an empty embedded backend
InitDomains ==
    /\ store = <<>>
    /\ ClickIdle
    /\ RespIdle
    /\ RootIdle
    /\ handlers = KNOWN_ERRORS
    /\ CallIdle
    /\ LibIdle
    /\ BackendIdle

NextDomains ==
    \/ \E d \in Strs, k \in Strs : DomainSet(d, k)
    \/ \E d \in Strs, k \in Strs : DomainGet(d, k)
    \/ \E d \in Strs, k \in Strs : DomainRemove(d, k)

SpecDomains == InitDomains /\ [][NextDomains]_vars

\* A SqliteBackend and a RedisBackend, both empty, given the same calls
InitBackends ==
    /\ store = <<>>
    /\ runner = "running"
    /\ now = 0
    /\ utcOffset \in Offsets
    /\ shadow = [k \in StoreKeys |-> None]
    /\ last = IdleLast
    /\ ClickIdle
    /\ RespIdle
    /\ RootIdle
    /\ handlers = KNOWN_ERRORS
    /\ CallIdle
    /\ LibIdle

NextBackends ==
    \/ Tick
    \/ \E key \in StoreKeys, value \in Blobs, ttl \in Timedeltas : BackendsStore(key, value, ttl)
    \/ \E key \in StoreKeys : BackendsGet(key)
    \/ \E key \in StoreKeys : BackendsRemove(key)

SpecBackends == InitBackends /\ [][NextBackends]_vars

\* A new SqliteBackend whose runner thread has started
InitRunner ==
    /\ store = <<>>
    /\ ClickIdle
    /\ RespIdle
    /\ RootIdle
    /\ handlers = KNOWN_ERRORS
    /\ CallIdle
    /\ LibIdle
    /\ BackendIdle

NextRunner ==
    \/ \E t \in Tasks, operation \in Operations : Submit(t, operation)
    \/ RunnerStep

SpecRunner == InitRunner /\ [][NextRunner]_vars

\* the runner thread is scheduled as long as it has an operation to take
SpecRunnerLive == SpecRunner /\ WF_vars(RunnerStep)

\* A new SqliteBackend, its runner thread started, that the application
\* shuts down at some point
InitShutdown ==
    /\ store = <<>>
    /\ ClickIdle
    /\ RespIdle
    /\ RootIdle
    /\ handlers = KNOWN_ERRORS
    /\ CallIdle
    /\ LibIdle
    /\ now = 0
    /\ utcOffset = 0
    /\ shadow = [k \in StoreKeys |-> None]
    /\ last = IdleLast
    /\ runner = "starting"

NextShutdown ==
    \/ ThreadStart
    \/ \E t \in Tasks, operation \in Operations : Submit(t, operation)
    \/ RunnerStep
    \/ Shutdown
    \/ Join

SpecShutdown == InitShutdown /\ [][NextShutdown]_vars

\* the runner thread is scheduled whenever it can take a step, and so is
\* the thread that waits in join
SpecShutdownLive ==
    SpecShutdown /\ WF_vars(ThreadStart) /\ WF_vars(RunnerStep) /\ WF_vars(Join)

\* A process that makes applications and registers error handlers on them
InitApps ==
    /\ store = <<>>
    /\ ClickIdle
    /\ RespIdle
    /\ RootIdle
    /\ handlers = KNOWN_ERRORS
    /\ CallIdle
    /\ SelIdle /\ DomIdle /\ RegIdle /\ BackIdle
    /\ ev = IdleEv /\ http = IdleHttp /\ pipe = IdlePipe /\ defd = IdleDefd
    /\ BackendIdle
    /\ apps = IdleApps

NextApps ==
    \/ NewApp
    \/ \E i \in DOMAIN apps.instances, error \in ErrorArguments,
          callback \in ErrorCallbacks : AppRegisterError(i, error, callback)

SpecApps == InitApps /\ [][NextApps]_vars

\* An application that answers with responses that include its deferred
\* components; a component may already be registered under the custom id
\* of the deferred button
InitDeferred ==
    /\ store = <<>>
    /\ ClickIdle
    /\ RespIdle
    /\ RootIdle
    /\ handlers = KNOWN_ERRORS
    /\ CallIdle
    /\ SelIdle /\ DomIdle /\ RegIdle /\ BackIdle
    /\ ev = IdleEv /\ http = IdleHttp /\ pipe = IdlePipe /\ apps = IdleApps
    /\ BackendIdle
    /\ \E taken \in SUBSET {DeclaredId("DeferredButton")} :
          defd = [IdleDefd EXCEPT !.components = taken]

NextDeferred ==
    \/ rpc = "idle" /\ \E r \in DeferredResponses : IntoResponsePayload(r)
    \/ ProcessComponent
    \/ ProcessDeferred
    \/ Rollback
    \/ ResponseDone

SpecDeferred == InitDeferred /\ [][NextDeferred]_vars

\* Interactions arriving at an application whose handlers are coroutine
\* functions or plain functions
InitLoop ==
    /\ store = <<>>
    /\ ClickIdle
    /\ RespIdle
    /\ RootIdle
    /\ handlers = KNOWN_ERRORS
    /\ CallIdle
    /\ LibIdle
    /\ BackendIdle

NextLoop ==
    \E t \in Tasks :
        \/ \E coro \in BOOLEAN : Arrive(t, coro)
        \/ Invoke(t)
        \/ LoopHandlerReturns(t)
        \/ ExecutorHandlerReturns(t)
        \/ Resume(t)

SpecLoop == InitLoop /\ [][NextLoop]_vars

\* An HttpHandler and the requests made through it
InitHttp ==
    /\ store = <<>>
    /\ ClickIdle
    /\ RespIdle
    /\ RootIdle
    /\ handlers = KNOWN_ERRORS
    /\ CallIdle
    /\ LibIdle
    /\ BackendIdle

NextHttp ==
    \/ Request
    \/ http.pc = "trying" /\ \E a \in Answers : Attempt(a)
    \/ TimerRelease

SpecHttp == InitHttp /\ [][NextHttp]_vars

\* a response whose row is rejected after its first component was stored,
\* and one that is accepted
FrameResponses ==
    {PlainResponse(Some(<<[single |-> FALSE, items |-> <<"button", "select">>]>>)),
     PlainResponse(Some(<<SingleButton>>))}

\* The entry of an earlier response in the store, clicks on its component
\* and on the components sent since, and one more response being normalized
InitFrame ==
    /\ comp \in {c \in PlainKinds : c.ctxParam = "required"}
    /\ sentEphemeral = FALSE
    /\ store = (PrefixedKey(COMMAND_STATE_TARGET, Some(Ref(1))) :>
                  Entry([parent |-> Some("token"), ephemeral |-> None, count |-> None]))
    /\ task = [t \in Tasks |-> IdleTask]
    /\ deletions = {}
    /\ RespIdleAt(1)
    /\ RootIdle
    /\ handlers = KNOWN_ERRORS
    /\ CallIdle
    /\ LibIdle
    /\ BackendIdle

NextFrame ==
    \/ \E t \in Tasks :
        \/ \E cid \in ChainIds : ComponentCall(t, cid)
        \/ GetContext(t)
        \/ OneshotRemove(t)
        \/ Destroy(t)
        \/ \E d \in BOOLEAN : HandlerReturns(t, d)
        \/ CleanupRemove(t)
        \/ DeleteParent(t)
    \/ rpc = "idle" /\ \E r \in FrameResponses : IntoResponsePayload(r)
    \/ ProcessComponent
    \/ Rollback

SpecFrame == InitFrame /\ [][NextFrame]_vars

\* A command, or a deferred command, before any add_check
InitPipeline ==
    /\ store = <<>>
    /\ ClickIdle
    /\ RespIdle
    /\ RootIdle
    /\ handlers = KNOWN_ERRORS
    /\ CallIdle
    /\ SelIdle /\ DomIdle /\ RegIdle /\ BackIdle
    /\ ev = IdleEv /\ http = IdleHttp /\ apps = IdleApps /\ defd = IdleDefd
    /\ \E initialised \in BOOLEAN : pipe = [IdlePipe EXCEPT !.initialised = initialised]
    /\ BackendIdle

NextPipeline ==
    \/ \E at \in Ats : CommandAddCheck(at)
    \/ DeferredInitialise

SpecPipeline == InitPipeline /\ [][NextPipeline]_vars

\* Clicks on a component whose handler is given the context and destroys it
InitDestroy ==
    /\ comp \in {c \in PlainKinds : c.ctxParam # "none"}
    /\ sentEphemeral = FALSE
    /\ store = (PrefixedKey(COMMAND_STATE_TARGET, Some(Ref(1))) :>
                  Entry([parent |-> Some("token"), ephemeral |-> None, count |-> None]))
    /\ task = [t \in Tasks |-> IdleTask]
    /\ deletions = {}
    /\ RespIdleAt(1)
    /\ RootIdle
    /\ handlers = KNOWN_ERRORS
    /\ CallIdle
    /\ LibIdle
    /\ BackendIdle

NextDestroy ==
    \E t \in Tasks :
        \/ \E cid \in ClickIds : ComponentCall(t, cid)
        \/ GetContext(t)
        \/ OneshotRemove(t)
        \/ Destroy(t)
        \/ PurgeSync(t)
        \/ \E d \in BOOLEAN : HandlerReturns(t, d)
        \/ CleanupRemove(t)
        \/ DeleteParent(t)

SpecDestroy == InitDestroy /\ [][NextDestroy]_vars

\* A message whose response carried several components: one entry per
\* component is in the store, each with the parent of the message
InitMessage ==
    /\ comp \in PlainKinds
    /\ sentEphemeral = FALSE
    /\ store = [k \in {PrefixedKey(COMMAND_STATE_TARGET, Some(Ref(i))) : i \in 1..(MaxRefs + 1)}
                  |-> Entry([parent |-> Some("token"), ephemeral |-> None, count |-> None])]
    /\ task = [t \in Tasks |-> IdleTask]
    /\ deletions = {}
    /\ RespIdleAt(MaxRefs + 1)
    /\ RootIdle
    /\ handlers = KNOWN_ERRORS
    /\ CallIdle
    /\ LibIdle
    /\ BackendIdle

NextMessage ==
    \E t \in Tasks :
        \/ \E cid \in ChainIds : ComponentCall(t, cid)
        \/ GetContext(t)
        \/ OneshotRemove(t)
        \/ \E d \in BOOLEAN : HandlerReturns(t, d)
        \/ HandlerRaises(t)
        \/ CleanupRemove(t)
        \/ DeleteParent(t)

SpecMessage == InitMessage /\ [][NextMessage]_vars

\* The decorators of a new application, applied one after another
InitRegistry ==
    /\ store = <<>>
    /\ ClickIdle
    /\ RespIdle
    /\ RootIdle
    /\ handlers = KNOWN_ERRORS
    /\ CallIdle
    /\ LibIdle
    /\ BackendIdle

NextRegistry ==
    \/ \E name \in Names, scope \in Scopes : RegisterCommand(name, scope)
    \/ \E given \in GivenIds, link \in BOOLEAN : RegisterComponent("button", given, link)
    \/ \E given \in GivenIds : RegisterComponent("select", given, FALSE)
    \/ \E base \in DOMAIN reg.components, r \in Refs : SendAndClick(base, r)

SpecRegistry == InitRegistry /\ [][NextRegistry]_vars

\* A message whose button was sent by a response that supplied no count, or
\* the count 0; the button's callback answers with the same button and the
\* next count
InitChain ==
    /\ comp \in ComponentKinds \ PlainKinds
    /\ sentEphemeral = FALSE
    /\ \E c \in {None, Some(0)} :
          store = (PrefixedKey(COMMAND_STATE_TARGET, Some(Ref(1))) :>
                      Entry([parent |-> Some("token"), ephemeral |-> None, count |-> c]))
    /\ task = [t \in Tasks |-> IdleTask]
    /\ deletions = {}
    /\ RespIdleAt(1)
    /\ RootIdle
    /\ handlers = KNOWN_ERRORS
    /\ CallIdle
    /\ LibIdle
    /\ BackendIdle

NextChain ==
    \/ \E t \in Tasks :
        \/ \E cid \in ChainIds : ComponentCall(t, cid)
        \/ GetContext(t)
        \/ OneshotRemove(t)
        \/ \E d \in BOOLEAN : HandlerReturns(t, d)
        \/ HandlerReturnsNone(t)
        \/ HandlerRaises(t)
        \/ CleanupRemove(t)
        \/ DeleteParent(t)
        \/ NormalizeReturned(t)
    \/ ProcessComponent

SpecChain == InitChain /\ [][NextChain]_vars

\* The store on its own, in a process whose local time zone has some offset
InitStore ==
    /\ store = <<>>
    /\ runner = "running"
    /\ now = 0
    /\ utcOffset \in Offsets
    /\ shadow = [k \in StoreKeys |-> None]
    /\ last = IdleLast
    /\ ClickIdle
    /\ RespIdle
    /\ RootIdle
    /\ handlers = KNOWN_ERRORS
    /\ CallIdle
    /\ LibIdle

NextStore ==
    \/ Tick
    \/ \E key \in StoreKeys, value \in StoreValues, ttl \in Ttls : StoreSet(key, value, ttl)
    \/ \E key \in StoreKeys : StoreGet(key)
    \/ \E key \in StoreKeys : StoreRemove(key)

SpecStore == InitStore /\ [][NextStore]_vars

----------------------------------------------------------------------------
\* Claims about component clicks

\* the two clicks were being processed at the same time
Concurrent(t, u) == u \in task[t].among \/ t \in task[u].among

\* the click entered the callback after fetching the stored context
InvokedWithStored(t) == Started(t) /\ task[t].ctx # None

\* the click was rejected with the "expired" response
RejectedExpired(t) == task[t].pc = "raised" /\ task[t].exc = "AbortInvoke"

\* C1: of two clicks of a oneshot component that carry the same reference
\* id and are processed concurrently, exactly one enters the handler with
\* the stored context and the other is rejected as expired.
C1_OneshotConcurrentExactlyOne ==
    \A t, u \in Tasks :
        ( /\ t # u /\ comp.oneshot
          /\ Finished(t) /\ Finished(u)
          /\ task[t].cid = task[u].cid /\ TRef(t) # None
          /\ Concurrent(t, u)
          /\ (task[t].ctx # None \/ task[u].ctx # None) )
        => \/ InvokedWithStored(t) /\ RejectedExpired(u)
           \/ InvokedWithStored(u) /\ RejectedExpired(t)

\* C7: deletion of the parent message is requested only when the handler's
\* response has delete_parent set, the response that carried the component
\* was not ephemeral, and the fetched context holds a parent.
C7_DeleteOnlyWhenNotEphemeral ==
    \A t \in deletions :
        /\ task[t].resp = Some(TRUE)
        /\ ~sentEphemeral
        /\ CtxParent(task[t].ctx) # None

\* C8: once a click carrying a reference id has entered the handler of a
\* oneshot component, no click that arrives later with the same reference
\* id enters the handler, whatever the handler's signature.
C8_OneshotNeverAgain ==
    \A t \in Tasks :
        (comp.oneshot /\ task[t].late /\ TRef(t) # None) => ~Started(t)

\* C9: while the handler of a oneshot component runs, and after it returned
\* or raised, the context of the clicked reference id is absent from the store.
C9_OneshotRemovedBeforeHandler ==
    \A t \in Tasks :
        (comp.oneshot /\ Started(t) /\ TRef(t) # None)
        => PrefixedKey(COMMAND_STATE_TARGET, TRef(t)) \notin DOMAIN store

\* a oneshot handler that was given the stored context has raised, and the
\* context is gone
C9_Witness ==
    \E t \in Tasks :
        /\ comp.oneshot /\ task[t].ctx # None
        /\ task[t].pc = "raised" /\ task[t].exc = "HandlerError"
        /\ PrefixedKey(COMMAND_STATE_TARGET, TRef(t)) \notin DOMAIN store
----------------------------------------------------------------------------
\* Claims about responses

\* process_block failed on some row and the except clause has finished
RowFailed == rpc = "raised" /\ rout = "ValueError" /\ rrow <= Len(Value(resp.components))

\* C2: when into_response_payload fails while processing a row, none of the
\* entries written for the earlier rows, or for the components of the failing
\* row processed before the failure, remain in the command-state store.
C2_RollbackLeavesNothing ==
    (resp.components # None /\ RowFailed) => written \cap DOMAIN store = {}

\* a payload carrying action rows has been returned
RowsReturned == rpc = "returned" /\ resp.components # None /\ ~IsEmpty(resp)

\* the components of the response, in order, and those of the payload
GivenKinds == Flatten([i \in 1..Len(Value(resp.components)) |-> Value(resp.components)[i].items])

PayloadComponents == Flatten(actionRows)

\* the reference of a sent custom id: the part after the first colon
SentRef(c) == SplitFirst(Value(c.custom_id))[2]

\* the component carries base:reference and the entry of that reference is in
\* the command-state store, holding the context of this response
Referenced(c) ==
    /\ c.custom_id # None
    /\ SplitFirst(Value(c.custom_id))[1] = FStr(RegisteredId(c.kind))
    /\ SentRef(c) # None
    /\ PrefixedKey(COMMAND_STATE_TARGET, SentRef(c)) \in DOMAIN store
    /\ PrefixedKey(COMMAND_STATE_TARGET, SentRef(c)) \in written
    /\ store[PrefixedKey(COMMAND_STATE_TARGET, SentRef(c))] = Entry(StoredContext(resp))

\* C12: whenever normalizing a response with components returns a payload,
\* every component of the payload that is not link-style carries a custom id
\* base:reference whose reference is fresh (no other component of the payload
\* has it) and whose InvokeContext entry is in the command-state store when
\* the payload is returned; link-style components carry no reference, and no
\* entry is written for them (the store holds one entry per referenced
\* component and nothing else).
C12_ReferencedAndStored ==
    RowsReturned =>
        LET cs == PayloadComponents
            refd == {i \in 1..Len(cs) : UrlIsNone(cs[i].kind)}
        IN /\ Len(cs) = Len(GivenKinds)
           /\ \A i \in 1..Len(cs) : cs[i].kind = GivenKinds[i]
           /\ \A i \in refd : Referenced(cs[i])
           /\ \A i, j \in refd : i # j => cs[i].custom_id # cs[j].custom_id
           /\ \A i \in 1..Len(cs) : ~UrlIsNone(cs[i].kind) => cs[i].custom_id = None
           /\ Cardinality(DOMAIN store) = Cardinality(refd)
           /\ written = DOMAIN store

\* a payload whose rows hold a link between two referenced components
C12_Witness ==
    /\ RowsReturned
    /\ \E i, j, k \in 1..Len(PayloadComponents) :
          /\ i < j /\ j < k
          /\ UrlIsNone(PayloadComponents[i].kind)
          /\ ~UrlIsNone(PayloadComponents[j].kind)
          /\ UrlIsNone(PayloadComponents[k].kind)
          /\ Cardinality(DOMAIN store) = 2

\* a row holding a select menu and at least one other component
MixedRow(block) ==
    /\ ~block.single
    /\ Len(block.items) > 1
    /\ \E i \in 1..Len(block.items) : block.items[i] = "select"

\* C13: a response in which some component row holds a select menu together
\* with any other component, in either order, is never returned as a payload.
C13_SelectAloneOnRow ==
    RowsReturned =>
        \A i \in 1..Len(Value(resp.components)) : ~MixedRow(Value(resp.components)[i])

\* the response being normalized has more rows than allowed
OverLimit == resp.components # None /\ Len(Value(resp.components)) > MaxActionRows

\* C14: a response with more than 5 component rows is rejected with an error,
\* and the state store is unchanged by it: no reference is generated and no
\* InvokeContext entry is written for any of its components.
C14_TooManyRowsRejected ==
    OverLimit =>
        /\ rpc = "raised" /\ rout = "ValueError"
        /\ store = <<>> /\ written = {} /\ nextRef = 0
        /\ actionRows = <<>> /\ componentBlock = <<>>

\* a response of six rows has been rejected
C14_Witness ==
    /\ OverLimit
    /\ Len(Value(resp.components)) = MaxActionRows + 1
    /\ rpc = "raised"

\* C21: for a response that is not empty, the type of the returned payload
\* is the response type the response asks for when it sets one, and the
\* default of the interaction kind otherwise, whether or not the response
\* carries components.
C21_PayloadTypeRequestedOrDefault ==
    (rpc = "returned" /\ ~IsEmpty(resp)) => rout = PayloadType(resp)

----------------------------------------------------------------------------
\* Claims about the endpoint

Answered == root.pc = "done"

Signed == req.signature = "valid" /\ req.timestamp = "present"

\* no component or command handler has been entered
NoHandlerInvoked == (\A t \in Tasks : ~Started(t)) /\ call.invoked = 0

\* nothing that reads or writes the store has been started
NoStoreOperation == (\A t \in Tasks : task[t].pc = "idle") /\ rpc = "idle"

\* C3: for every correctly signed, schema-valid APPLICATION_COMMAND request
\* whose data.name is registered, the dispatcher invokes the command handler
\* exactly once and produces exactly one response payload.
C3_ExactlyOneHandlerOnce ==
    (Answered /\ Signed /\ req.body = "APPLICATION_COMMAND"
        /\ req.name \in RegisteredCommands)
    => (root.called /\ root.payloads = 1)

\* C4: a request whose signature or timestamp header is missing, whose
\* signature is malformed, or whose signature does not verify is answered
\* with 401, and JSON parsing, interaction construction, handler lookup,
\* handler invocation and store operations are never reached.
C4_UnauthorizedIs401 ==
    (Answered /\ ~Signed)
    => /\ root.status = 401
       /\ ~root.parsed /\ ~root.built /\ ~root.looked /\ ~root.called
       /\ NoHandlerInvoked /\ NoStoreOperation

\* handle_abort_invoke(AbortInvoke("This button has expired.", EPHEMERAL))
ExpiredResult ==
    [kind |-> "Response",
     response |-> [PlainResponse(None) EXCEPT
                      !.flags_ephemeral = TRUE,
                      !.response_type = Some("CHANNEL_MESSAGE_WITH_SOURCE")]]

\* the click of the request finds no context under its reference id
ContextMissing ==
    /\ req.body = "MESSAGE_COMPONENT"
    /\ req.custom_id # None
    /\ LookupId(Value(req.custom_id)) \in RegisteredComponents
    /\ StateGet(store, COMMAND_STATE_TARGET, ReferenceId(Value(req.custom_id)),
                now, utcOffset).result = None

\* C10: when a click's reference id has no context in the store and the
\* handler's context parameter has no default, the handler is not invoked and
\* the dispatch result is the ephemeral 'expired' response, not an unhandled
\* exception or an HTTP error.
C10_ExpiredIsEphemeralResponse ==
    (Answered /\ Signed /\ ContextMissing /\ comp.ctxParam = "required")
    => /\ NoHandlerInvoked
       /\ root.status = 200
       /\ root.result = ExpiredResult

\* the request was answered after the invocation of the callback raised
InvocationRaised == root.pc = "done" /\ root.raised # ""

\* process_response turned the value of the error handler into a payload
Normalized ==
    \/ root.result.kind \in {"ResponsePayload", "ResponseData"}
    \/ root.result.kind \in {"None", "Response"} /\ rpc = "returned"

Unregistered ==
    \/ req.body = "APPLICATION_COMMAND" /\ req.name \notin RegisteredCommands
    \/ req.body = "MESSAGE_COMPONENT"
          /\ (req.custom_id = None
                \/ LookupId(Value(req.custom_id)) \notin RegisteredComponents)

\* the outcome the request is to have, the failures taken in their order
ExpectedStatus ==
    IF ~Signed THEN {401}
    ELSE IF req.body \in {"notjson", "badschema"} THEN {422}
    ELSE IF Unregistered THEN {400}
    ELSE IF req.body = "APPLICATION_COMMAND_AUTOCOMPLETE" THEN {400, 200}
    ELSE {200}

\* C19: every request ends in exactly one of: 401 for a signature failure,
\* 422 for a payload that fails validation, 400 for a command name or
\* component id that is not registered or an unrecognized interaction type,
\* and otherwise 200 with the response, decided in this order; a request
\* that fails before a handler is identified invokes no handler.
C19_OutcomeOrder ==
    Answered =>
        /\ root.status \in ExpectedStatus
        /\ root.status = 200 <=> root.payloads = 1
        /\ root.status # 200 => NoHandlerInvoked

\* C20: a correctly signed APPLICATION_COMMAND_AUTOCOMPLETE interaction that
\* names a registered command is looked up in the command registry and routed
\* to the command's autocomplete handler, is answered with the choices as the
\* one response, and runs no check and not the main handler of the command.
C20_AutocompleteRouted ==
    (Answered /\ Signed /\ req.body = "APPLICATION_COMMAND_AUTOCOMPLETE"
        /\ req.name \in RegisteredCommands)
    => /\ root.looked
       /\ root.status = 200
       /\ root.payloads = 1
       /\ call.ran = {} /\ call.invoked = 0

----------------------------------------------------------------------------
\* Claims about commands

CallFinished == call.pc \in {"returned", "raised"}

\* check i is the first of the pipeline whose callback raises
FirstRaising(i) ==
    cmd.checks[i].raises /\ \A j \in 1..(i - 1) : ~cmd.checks[j].raises

\* C6: when a check of the pipeline raises, the call returns the check's
\* rejection message as the response, and no later check and not the
\* command's handler is executed.
C6_CheckRejectionReturned ==
    \A i \in 1..Len(cmd.checks) :
        (call.type = "APPLICATION_COMMAND" /\ CallFinished /\ FirstRaising(i))
        => /\ call.pc = "returned"
           /\ call.result = "rejection"
           /\ call.invoked = 0
           /\ \A j \in call.ran : j <= i

\* a call for a command, not for its autocompletion, has finished
CommandFinished == call.type = "APPLICATION_COMMAND" /\ CallFinished

\* no callback of the pipeline raises for this interaction
AllPass == \A i \in 1..Len(cmd.checks) : ~cmd.checks[i].raises

\* what the check at position i hands on when given x
Returned(i, x) == CheckOutcome(cmd.checks[i], x).value

\* C15: the checks run in the order they were registered, one at a time; the
\* first receives the inbound interaction, check i+1 receives the interaction
\* returned by check i, and the main handler receives the interaction
\* returned by the last check.
C15_ChecksChainInteraction ==
    (CommandFinished /\ AllPass /\ ~call.options) =>
        /\ Len(call.seen) = Len(cmd.checks)
        /\ call.ran = 1..Len(cmd.checks)
        /\ \A i \in 1..Len(call.seen) :
              call.seen[i] = IF i = 1 THEN "interaction"
                             ELSE Returned(i - 1, call.seen[i - 1])
        /\ call.invoked = 1
        /\ call.given = IF cmd.checks = <<>> THEN "interaction"
                        ELSE Returned(Len(cmd.checks), call.seen[Len(cmd.checks)])

\* C16: when a check aborts the pipeline, the error handler of the command
\* is invoked with the interaction as the command received it and the
\* exception the check raised, and the handler's return value becomes the
\* response.
C16_ErrorHandlerGetsOriginal ==
    \A i \in 1..Len(cmd.checks) :
        (CommandFinished /\ FirstRaising(i) /\ ~cmd.checks[i].on_reject
            /\ cmd.on_error = "registered")
        => /\ call.errGot = "interaction"
           /\ call.exc = CheckError
           /\ call.pc = "returned"
           /\ call.result = "error_response"

\* C17: an exception raised by the body of the command's main handler is
\* passed to the error handler registered with Command.error, and that
\* handler's return value becomes the response.
C17_HandlerErrorHandled ==
    (CommandFinished /\ call.invoked = 1 /\ call.exc = "HandlerError"
        /\ cmd.on_error = "registered")
    => /\ call.pc = "returned"
       /\ call.result = "error_response"

\* C23: for a chat-input command, the options the interaction supplies are
\* passed to the handler under their names (echo with message="hi" invokes
\* the handler with message="hi"), and omitted optional parameters get
\* their defaults: a call whose interaction carries options, on a command
\* without checks, invokes the handler, and no error arises before it.
C23_OptionsReachHandler ==
    (CommandFinished /\ cmd.checks = <<>> /\ call.options)
    => /\ call.invoked = 1
       /\ call.exc \in {"", "HandlerError"}

----------------------------------------------------------------------------
\* Claims about the store

\* C5: an entry stored with ttl=T is returned by get at every time before T
\* has elapsed since the store, and get returns None at every time after T
\* has elapsed.
C5_TtlExpiry ==
    (last.op = "get" /\ ~last.hung /\ shadow[last.key] # None
        /\ Value(shadow[last.key]).ttl # None)
    => LET e == Value(shadow[last.key])
           elapsed == last.at - e.at
       IN /\ (elapsed < Value(e.ttl) => last.result = Some(e.value))
          /\ (elapsed > Value(e.ttl) => last.result = None)

----------------------------------------------------------------------------
\* Claims about the context passed between responses and clicks

\* task u clicked a component of the normalized response and its callback
\* was entered with the stored context
ClickedCarried(u) ==
    /\ Started(u)
    /\ task[u].ctx # None
    /\ TRef(u) # None
    /\ PrefixedKey(COMMAND_STATE_TARGET, TRef(u)) \in written

\* C11: the context a component handler receives on click equals the
\* component_context supplied by the response that carried the component,
\* also when that response came from a component handler that supplied a
\* new value for a key of the context it was invoked with.
C11_ReceivesSuppliedContext ==
    \A u \in Tasks :
        ClickedCarried(u) => Value(task[u].ctx).count = resp.supplied_count

----------------------------------------------------------------------------
\* Claims about selected values

\* the click was on a select menu and carried at least one value
SelectedValues ==
    /\ sel.limits \in SelectLimits
    /\ sel.values # None
    /\ Len(Value(sel.values)) > 0

\* C22: when a component interaction carries a non-empty list of selected
\* values, the values parameter of the handler is bound to the first value
\* alone if min_values and max_values of the select are both 1, and to the
\* whole list otherwise.
C22_ValuesBoundByLimits ==
    (sel.pc = "invoked" /\ SelectedValues) =>
        sel.bound = Some(IF sel.limits.min = Some(1) /\ sel.limits.max = Some(1)
                         THEN First(Value(sel.values))
                         ELSE Whole(Value(sel.values)))

\* a select with limits 1 and 1 was handed the first of two values
C22_Witness ==
    /\ sel.pc = "invoked" /\ SelectedValues
    /\ sel.limits = [min |-> Some(1), max |-> Some(1)]
    /\ Len(Value(sel.values)) = 2
    /\ sel.bound = Some(First(Value(sel.values)))

----------------------------------------------------------------------------
\* Claims about the domains of the managed state

\* the value belongs to another domain than the one the operation used
Foreign(v) == v # None /\ Value(v).domain # dom.d

\* C24: for distinct domain names d1 and d2 and any keys k1 and k2, a get,
\* set or remove of k2 in d2 never returns, overwrites or removes a value
\* stored under k1 in d1.
C24_DomainsIsolated ==
    /\ dom.op = "get" => ~Foreign(dom.result)
    /\ dom.op = "set" => ~Foreign(dom.replaced)
    /\ dom.op = "remove" => ~Foreign(dom.removed)

----------------------------------------------------------------------------
\* Claims about registration

\* the registration made last
LastMade == reg.made[Len(reg.made)]

\* the last registration was of a command
CommandAttempt ==
    /\ Len(reg.made) > 0
    /\ \/ reg.outcome = "CommandAlreadyExists"
       \/ reg.outcome = "registered" /\ LastMade.what = "command"

\* a command of the same name was registered before, in the same scope
SameScopeExists ==
    \E i \in 1..(Len(reg.made) - 1) :
        /\ reg.made[i].what = "command"
        /\ reg.made[i].name = LastMade.name
        /\ reg.made[i].scope = LastMade.scope

\* C25 as stated: registering a command is rejected with
\* CommandAlreadyExists exactly when a command of that name already exists
\* in the same scope; a global and a guild-scoped command of the same name
\* can both be registered.
C25_UniquePerScope ==
    CommandAttempt => (reg.outcome = "CommandAlreadyExists" <=> SameScopeExists)

\* C25: command names are unique in the application, whatever the scope:
\* registering a command is rejected with CommandAlreadyExists, leaving the
\* registry unchanged, exactly when a command of that name is registered
\* already, be it global or guild-scoped; otherwise the command is entered
\* under its name.
C25_UniqueByName ==
    CommandAttempt =>
        /\ reg.outcome = "CommandAlreadyExists" <=> LastMade.name \in DOMAIN reg.before.commands
        /\ reg.outcome = "CommandAlreadyExists" => Registry = reg.before
        /\ reg.outcome = "registered" =>
              /\ reg.commands = (LastMade.name :> LastMade) @@ reg.before.commands
              /\ reg.components = reg.before.components

\* a guild-scoped command was rejected because a global command has its name
C25_Witness ==
    /\ CommandAttempt
    /\ reg.outcome = "CommandAlreadyExists"
    /\ LastMade.scope # None
    /\ reg.commands[LastMade.name].scope = None

\* the registrations that returned a component
Components ==
    {i \in 1..Len(reg.made) : reg.made[i].what \in {"button", "select"}}

\* the last registration was of a button or a select and passed validation
ComponentAttempt ==
    /\ Len(reg.made) > 0
    /\ \/ reg.outcome = "ComponentAlreadyExists"
       \/ reg.outcome = "registered" /\ LastMade.what \in {"button", "select"}

\* C26: after any sequence of button and select registrations the registry
\* maps each custom id to exactly one component: every component that is not
\* a link is in the registry under its own id and no other has that id; a
\* registration whose id is registered already raises ComponentAlreadyExists
\* and leaves the registry unchanged; a link button has custom id None and
\* is not in the registry.
C26_ComponentRegistryUnique ==
    /\ \A i \in Components :
          IF reg.made[i].link
          THEN /\ reg.made[i].id = None
               /\ \A id \in DOMAIN reg.components : reg.components[id] # reg.made[i]
          ELSE /\ reg.made[i].id # None
               /\ Value(reg.made[i].id) \in DOMAIN reg.components
               /\ reg.components[Value(reg.made[i].id)] = reg.made[i]
    /\ \A id \in DOMAIN reg.components :
          \E i \in Components : reg.components[id] = reg.made[i] /\ reg.made[i].id = Some(id)
    /\ ComponentAttempt =>
          /\ reg.outcome = "ComponentAlreadyExists"
                <=> (~LastMade.link /\ Value(LastMade.id) \in DOMAIN reg.before.components)
          /\ reg.outcome = "ComponentAlreadyExists" => Registry = reg.before

\* a second registration of a given id was rejected, with a link button and
\* a generated id among the registrations
C26_Witness ==
    /\ reg.outcome = "ComponentAlreadyExists"
    /\ \E i \in Components : reg.made[i].link
    /\ DOMAIN reg.components # {}

\* C27: for a registered custom id base and a generated reference id r
\* without delimiter, the id sent as base:r is split on click into exactly
\* (base, r), by the registry lookup of the dispatcher and by the reference
\* extraction of the component.
C27_SplitRoundTrip ==
    reg.clicked # None =>
        /\ Value(reg.clicked).lookup = Value(reg.clicked).base
        /\ Value(reg.clicked).reference = Some(Value(reg.clicked).ref)

\* C28: the embedded and the networked backend are interchangeable: every
\* store, get and remove gives the caller the same result on both, and a get
\* returns the last stored, unexpired, unremoved value of the key, None when
\* there is none.
C28_BackendsInterchangeable ==
    red.op # "none" =>
        /\ red.sqlite = red.redis
        /\ red.op = "get" => red.redis = Completes(red.live)

\* C29: every store, get or remove awaited on the embedded backend
\* eventually completes, whatever the operations made before it.
C29_EveryCallCompletes ==
    \A t \in Tasks : (sq.calls[t].pc = "waiting") ~> (sq.calls[t].pc = "done")

\* the runner has nothing it can do
Quiet == runner = "dead" \/ sq.queue = <<>>

\* the operations are applied in the order of their submission
InSubmissionOrder == \A i \in DOMAIN sq.applied : sq.applied[i].serial = i

\* a caller that got a result got the result of its own operation
OwnResult ==
    \A t \in Tasks :
        sq.calls[t].pc = "done" =>
            \E i \in DOMAIN sq.applied :
                /\ sq.applied[i].serial = sq.calls[t].serial
                /\ sq.applied[i].result = sq.calls[t].result

\* store s is the last store or remove of its key submitted before get g
LastWriteBefore(s, g) ==
    /\ s < g
    /\ sq.submitted[s].action = "SET"
    /\ sq.submitted[g].action = "GET"
    /\ sq.submitted[s].key = sq.submitted[g].key
    /\ \A m \in (s + 1)..(g - 1) :
          sq.submitted[m].action = "GET" \/ sq.submitted[m].key # sq.submitted[g].key

\* once the runner has nothing left to do, a get submitted after a store of
\* its key has returned the value of that store
GetObservesStore ==
    Quiet =>
        \A s, g \in DOMAIN sq.submitted :
            LastWriteBefore(s, g) =>
                /\ g \in DOMAIN sq.applied
                /\ sq.applied[g].serial = g
                /\ sq.applied[g].result = sq.submitted[s].value

\* C30: the operations submitted by concurrent tasks are applied one at a
\* time, in the order of their submission, each caller receives the result
\* of its own operation, and a get submitted after a store of the same key
\* observes that store.
C30_AppliedInOrderOwnResult ==
    /\ InSubmissionOrder
    /\ OwnResult
    /\ GetObservesStore

\* C31: while a synchronous handler is executing the event loop is free of
\* it: the loop is held only by a handler that is a coroutine, so another
\* interaction can be dispatched and completed before the synchronous
\* handler returns.
C31_SyncHandlerLeavesLoopFree ==
    /\ \A t \in SyncExecuting : ev.loop # Some(t)
    /\ ev.loop # None => ev.tasks[Value(ev.loop)].coro

\* an interaction that arrived while a synchronous handler was executing
\* has completed, and that handler is executing still
C31_Witness ==
    \E t \in SyncExecuting :
        \E u \in Tasks \ {t} : ev.tasks[u].pc = "done" /\ t \in ev.tasks[u].during

\* the answers after which the claim has the request retried
Retryable(a) == ~TransportError(a) /\ (a.status = 429 \/ a.status >= 500)

TypedErrors == {"HTTPException", "DiscordServerError", "Forbidden", "NotFound"}

\* C32: a request that receives a 429 or a 5xx response is retried after a
\* delay, with at most 5 attempts in all, and fails with a typed error once
\* the attempts are used up.
C32_RetriedUpToFiveThenTyped ==
    /\ Len(http.attempts) <= MaxTries
    /\ \A i \in DOMAIN http.attempts :
          (Retryable(http.attempts[i]) /\ i < MaxTries) =>
              /\ http.pc = "trying" \/ i < Len(http.attempts)
              /\ i \in DOMAIN http.delays /\ http.delays[i] > 0
    /\ (/\ http.pc = "done"
        /\ Len(http.attempts) = MaxTries
        /\ Retryable(http.attempts[MaxTries]))
       => http.outcome \in TypedErrors

\* the key of the command state under which State.set stored key k
RowKey(k) == PrefixedKey(COMMAND_STATE_TARGET, Some(k))

\* C33: State.set on a key that holds a value replaces it: the call
\* succeeds, the row of the key holds the new value with the expiry of the
\* new write, and a following get returns the new value.
C33_SetReplaces ==
    /\ (last.op = "set" /\ shadow[last.key] # None)
       => /\ ~last.hung
          /\ Value(shadow[last.key]).at = last.at
    /\ \A k \in StoreKeys :
          (shadow[k] # None /\ RowKey(k) \in DOMAIN store)
          => /\ store[RowKey(k)].value = PickleDumps(Value(shadow[k]).value)
             /\ store[RowKey(k)].delete_after = None <=> Value(shadow[k]).ttl = None
    /\ (last.op = "get" /\ ~last.hung /\ shadow[last.key] # None
            /\ Value(shadow[last.key]).ttl = None)
       => last.result = Some(Value(shadow[last.key]).value)

\* C34: every component that is not a link gets a reference of its own
\* with one entry in the store, and an entry is removed or changed only by
\* an operation on its own reference: a step that stores an entry adds one
\* new key and leaves the others alone, and a step that removes or changes
\* an entry is the oneshot removal, the destroy or the cleanup of a click
\* that carries the reference of that entry (so the rollback of another
\* response, and the clicks on other references, leave it unchanged).
C34_OwnEntryOnly ==
    [][/\ \A k \in DOMAIN store :
            (k \notin DOMAIN store' \/ store'[k] # store[k])
            => \E t \in Tasks :
                  /\ task[t].pc \in {"remove", "running", "cleanup"}
                  /\ task'[t] # task[t]
                  /\ k = PrefixedKey(COMMAND_STATE_TARGET, TRef(t))
       /\ \A k \in DOMAIN store' \ DOMAIN store :
            /\ rpc = "rows"
            /\ DOMAIN store' = DOMAIN store \cup {k}
            /\ written' = written \cup {k}]_vars

\* the entry of the earlier response was destroyed by a click on it and the
\* rollback of a rejected response has run, and the entry written for that
\* response is in the store
C34_Witness ==
    /\ rpc = "raised"
    /\ rout = "ValueError"
    /\ written # {}
    /\ written \subseteq DOMAIN store
    /\ RowKey(Ref(1)) \notin DOMAIN store
    /\ \E t \in Tasks : task[t].destroyed

\* the pipeline s without the check c
Without(s, c) == SelectSeq(s, LAMBDA x : x # c)

\* C35: add_check(check, at=i) inserts the check at index i when
\* 0 <= i < length of the pipeline and appends it otherwise; the checks
\* that were in the pipeline keep their order and none is removed; on a
\* deferred command every call made is applied so.
C35_AddCheckInsertsOrAppends ==
    /\ \A n \in DOMAIN pipe.steps :
          LET s == pipe.steps[n]
          IN /\ Len(s.after) = Len(s.before) + 1
             /\ Without(s.after, s.check) = s.before
             /\ IF 0 <= s.at /\ s.at < Len(s.before)
                THEN s.after[s.at + 1] = s.check
                ELSE s.after[Len(s.after)] = s.check
    /\ pipe.initialised =>
          /\ Len(pipe.steps) = pipe.made
          /\ Len(pipe.checks) = pipe.made
          /\ \A c \in 1..pipe.made : \E i \in DOMAIN pipe.checks : pipe.checks[i] = c

\* a check was inserted inside a pipeline of two, and another call gave a
\* negative index to a pipeline that was not empty
C35_Witness ==
    /\ pipe.initialised
    /\ Len(pipe.calls) = Len(pipe.steps)
    /\ \E n \in DOMAIN pipe.steps :
          pipe.steps[n].at = 1 /\ Len(pipe.steps[n].before) = 2
    /\ \E n \in DOMAIN pipe.steps :
          pipe.steps[n].at < 0 /\ Len(pipe.steps[n].before) > 0

\* C36: after destroy() or purge_sync() has completed for a reference id, a
\* later click that carries the reference finds no stored context, and no
\* populated context is passed to the handler.
C36_DestroyedNeverPassedAgain ==
    \A t \in Tasks :
        task[t].afterDestroy => (task[t].ctx = None /\ task[t].kw # "stored")

\* the entries created for the components of the message
MessageKeys == {RowKey(Ref(i)) : i \in 1..(MaxRefs + 1)}

\* C37: when a click leads to the deletion of the parent message, then after
\* the dispatch of the click the entry of the clicked reference is not in
\* the store, and no entry created for the components of the deleted
\* message is.
C37_DeletedMessageLeavesNoState ==
    \A t \in deletions :
        task[t].pc = "done" =>
            /\ PrefixedKey(COMMAND_STATE_TARGET, TRef(t)) \notin DOMAIN store
            /\ MessageKeys \cap DOMAIN store = {}

\* the first half of C37 alone: the entry of the clicked reference is gone
ClickedEntryRemoved ==
    \A t \in deletions :
        task[t].pc = "done" => PrefixedKey(COMMAND_STATE_TARGET, TRef(t)) \notin DOMAIN store

\* C38: SqliteBackend.shutdown() eventually returns, with the worker
\* thread ended, from every state in which it is called
C38_ShutdownReturns ==
    (sq.shutdown = "joining") ~> (sq.shutdown = "returned" /\ runner # "running")

\* the thread ends, and join returns, when an operation is on the queue at
\* the moment the flag is cleared
ShutdownReturnsWithWork ==
    (sq.shutdown = "joining" /\ sq.queue # <<>> /\ runner = "running")
        ~> (sq.shutdown = "returned" /\ runner # "running")

\* the table an application would have had it alone received its
\* register_error calls, starting from the built-in table
RECURSIVE OwnTable(_)
OwnTable(calls) ==
    IF calls = <<>>
    THEN KNOWN_ERRORS
    ELSE LET c == calls[Len(calls)]
         IN RegisterError(OwnTable(SubSeq(calls, 1, Len(calls) - 1)), c[1], c[2])

\* C39: register_error on one application changes the table of that
\* application only: every application reads the built-in table changed by
\* its own registrations, and a new application reads the built-in table
C39_RegisterErrorOwnTableOnly ==
    \A i \in DOMAIN apps.instances : Table(i) = OwnTable(apps.log[i])

\* with a single application in the process, its table is the built-in
\* table changed by its registrations
SingleAppOwnTable ==
    Len(apps.instances) = 1 => Table(1) = OwnTable(apps.log[1])

\* the deferred component the loop of process_block is at
CurrentItem ==
    LET block == Value(resp.components)[rrow]
    IN block.items[IF block.single THEN 1 ELSE rcol]

\* C40: a deferred component is registered with the application at most
\* once, by the resolution that initialises it; every resolution attempt
\* made after that, when a further response includes the component, raises
\* TypeError and leaves the component registry and the state store as
\* they were
C40_DeferredResolvedOnce ==
    [][ /\ \A d \in DeferredKinds :
             /\ defd'.registered[d] <= 1
             /\ defd'.initialised[d] # None => defd'.registered[d] = 1
        /\ (CurrentDeferred /\ defd.initialised[CurrentItem] # None) =>
             /\ rpc' \in {"rollback", "raised"}
             /\ rout' = "TypeError"
             /\ defd'.components = defd.components
             /\ defd'.registered = defd.registered
             /\ store' = store ]_vars

\* a second response that included an initialised deferred component has
\* failed with TypeError, after an entry was stored for another component
C40_Witness ==
    /\ rpc = "raised"
    /\ rout = "TypeError"
    /\ defd.sent > 0
    /\ \E d \in DeferredKinds : defd.registered[d] = 1
    /\ Cardinality(DOMAIN store) > 1

====
